---------------------------- MODULE Spec2Model ----------------------------
(***************************************************************************)
(* picoclaw, package agent: the system-prompt cache of ContextBuilder      *)
(* (BuildSystemPromptWithCache, InvalidateCache, the mtime/existence       *)
(* staleness check), the message composer BuildMessages and the history    *)
(* sanitizer sanitizeHistoryForProvider.                                   *)
(*                                                                         *)
(* The workspace is a small file tree.  Every entry has an existence flag, *)
(* an mtime and (regular files) a content.  Times are integers:            *)
(*   0  the zero time.Time{}   (cachedAt after InvalidateCache)            *)
(*   1  time.Unix(1, 0)        (the empty-workspace sentinel)              *)
(*   t  any later instant, at the granularity of the file system's mtime   *)
(* A prompt is the sequence of the parts BuildSystemPrompt joins with      *)
(* "\n\n---\n\n"; the empty string is the empty sequence.                  *)
(***************************************************************************)
EXTENDS Integers, Sequences, FiniteSets, TLC

(***************************************************************************)
(* Bounds of the model.                                                    *)
(***************************************************************************)
\* the latest instant the file system clock reaches
MaxTime == 3
\* file-system operations an external actor performs in one behaviour
MaxFsOps == 1
\* concurrent callers of the ContextBuilder
NProcs == 2
\* longest history handed to BuildMessages
MaxHist == 2
MaxSanHist == 5

Procs == 1..NProcs
Times == 0..MaxTime
\* contents a regular file can hold (two versions suffice to tell an edit)
Contents == {"v1", "v2"}

(***************************************************************************)
(* State.                                                                  *)
(***************************************************************************)
VARIABLES
    fs,                  \* the workspace tree on disk
    clock,               \* the current tick of the clock that stamps mtimes
    fsOps,               \* file-system operations performed so far
    mode,                \* which callers run and which inputs they use
    cachedSystemPrompt,  \* ContextBuilder.cachedSystemPrompt
    cachedAt,            \* ContextBuilder.cachedAt
    existedAtCache,      \* ContextBuilder.existedAtCache
    systemPromptMutex,   \* sync.RWMutex: w the writer (0: none), r the readers,
                         \* pend the writer waiting for the readers to leave
    pc,                  \* each caller's position
    op,                  \* the call each caller is in
    args,                \* the arguments of the call
    baseline,            \* local of BuildSystemPromptWithCache
    prompt,              \* local: the prompt built or obtained
    ret,                 \* the value the completed call returned
    how,                 \* the path BuildSystemPromptWithCache took
    \* history variables: they record what happened and steer nothing
    seen,                \* per caller: the cache and fsOps when its call began
    wait,                \* per caller: what happened since its fast path missed
    built,               \* the last rebuild: the tree its baseline was taken from
    quiet,               \* the first prompt returned since the last disturbance
    inv                  \* per caller: the cache its InvalidateCache cleared

cache == <<cachedSystemPrompt, cachedAt, existedAtCache>>
env == <<fs, clock, fsOps>>
locals == <<baseline, prompt>>
ghosts == <<seen, wait, built, quiet, inv>>
vars == <<fs, clock, fsOps, mode, cachedSystemPrompt, cachedAt, existedAtCache,
          systemPromptMutex, pc, op, args, baseline, prompt, ret, how,
          seen, wait, built, quiet, inv>>

(***************************************************************************)
(* The workspace tree.                                                     *)
(***************************************************************************)
\* sourcePaths(): bootstrap files + memory, in the order of the slice
sourcePaths ==
    <<"AGENTS.md", "SOUL.md", "USER.md", "IDENTITY.md", "memory/MEMORY.md">>

skillsDir == "skills"

\* LoadBootstrapFiles: the four bootstrap file names, in order
bootstrapFiles == <<"AGENTS.md", "SOUL.md", "USER.md", "IDENTITY.md">>

MemoryFile == "memory/MEMORY.md"

\* directories and regular files beneath skills/
SubDirs == {"skills/a", "skills/a/docs"}
SkillFiles == {"skills/a/SKILL.md", "skills/a/docs/extra.md"}

SeqRange(s) == {s[i] : i \in 1..Len(s)}

\* NewContextBuilder: the global skills directory under the user's home and
\* the builtin one under the working directory, both outside the workspace
globalSkills == "~/.picoclaw/skills"
builtinSkills == "cwd/skills"

\* the three directories ListSkills enumerates, by falling priority
SkillRoots == <<skillsDir, globalSkills, builtinSkills>>
SkillSources == <<"workspace", "global", "builtin">>

\* filepath.Join(dir, "a", "SKILL.md")
SkillFileIn(dir) ==
    CASE dir = skillsDir     -> "skills/a/SKILL.md"
      [] dir = globalSkills  -> "~/.picoclaw/skills/a/SKILL.md"
      [] dir = builtinSkills -> "cwd/skills/a/SKILL.md"

\* the skill files outside the workspace (a file exists only in existing
\* directories, which are not entries of their own here)
OutsidePaths == {SkillFileIn(globalSkills), SkillFileIn(builtinSkills)}

SourceFiles == SeqRange(sourcePaths)
Dirs == {skillsDir} \cup SubDirs
RegularFiles == SourceFiles \cup SkillFiles
Paths == Dirs \cup RegularFiles \cup OutsidePaths

\* the directory an entry lives in ("." is the workspace root, which the
\* program never stats; memory/ is created by the MemoryStore constructor)
Parent(p) ==
    CASE p = "skills/a"               -> "skills"
      [] p = "skills/a/docs"          -> "skills/a"
      [] p = "skills/a/SKILL.md"      -> "skills/a"
      [] p = "skills/a/docs/extra.md" -> "skills/a/docs"
      [] OTHER                        -> "."

Absent == [ex |-> FALSE, mt |-> 0, c |-> "-"]
File(t, c) == [ex |-> TRUE, mt |-> t, c |-> c]
Dir(t) == [ex |-> TRUE, mt |-> t, c |-> "-"]


\* the content of a file that os.ReadFile fails on (no read permission)
Unreadable == "!"

\* os.Stat(p) succeeds
Exists(f, p) == f[p].ex
\* os.ReadFile(p) succeeds
Readable(f, p) == f[p].ex /\ f[p].c # Unreadable
\* info.ModTime() of an existing entry
ModTime(f, p) == f[p].mt

ParentExists(f, p) == IF Parent(p) = "." THEN TRUE ELSE f[Parent(p)].ex

\* a comparison that takes an equal instant for a later one
NotBefore(a, b) == a >= b

\* time.Time.After
After(a, b) == a > b
\* time.Time.IsZero
IsZero(t) == t = 0

SetMax(S) == CHOOSE m \in S : \A x \in S : x <= m

(***************************************************************************)
(* Baseline snapshot and staleness detector (pure in the cache fields and  *)
(* the file system, so they can be evaluated on any pair of them).         *)
(***************************************************************************)
\* a nil map[string]bool
NilMap == << >>
IsNil(m) == DOMAIN m = {}
\* m[p] of a Go map: the zero value for an absent key
MapGet(m, p) == IF p \in DOMAIN m THEN m[p] ELSE FALSE

\* a walk that does not descend below the skill directories
WalkOneLevel(f) == {p \in SkillFiles : Exists(f, p) /\ Parent(Parent(p)) = skillsDir}

\* the regular files filepath.WalkDir(skillsDir) visits and can stat
WalkFiles(f) == {p \in SkillFiles : Exists(f, p)}

\* allPaths := append(cb.sourcePaths(), skillsDir)
allPaths == Append(sourcePaths, skillsDir)
TrackedPaths == SeqRange(allPaths)

\* the running maximum after the stat loop and the walk
ObservedMtimes(f) ==
    {ModTime(f, p) : p \in {q \in TrackedPaths : Exists(f, q)} \cup WalkFiles(f)}

RunningMax(f) == SetMax(ObservedMtimes(f) \cup {0})

\* the fallback for an empty workspace: time.Unix(1, 0)
SentinelMtime == 1

\* a snapshot that leaves the running maximum as it is
BaselineNoSentinel(f) ==
    [existed  |-> [p \in TrackedPaths |-> Exists(f, p)],
     maxMtime |-> RunningMax(f)]

\* a snapshot that takes every tracked path for present
BaselineAllPresent(f) ==
    [existed  |-> [p \in TrackedPaths |-> TRUE],
     maxMtime |-> IF IsZero(RunningMax(f)) THEN SentinelMtime ELSE RunningMax(f)]

buildCacheBaseline(f) ==
    [existed  |-> [p \in TrackedPaths |-> Exists(f, p)],
     maxMtime |-> IF IsZero(RunningMax(f)) THEN SentinelMtime ELSE RunningMax(f)]

\* the four-way logic without its mtime comparison
ExistenceOnly(at, existed, f, path) ==
    IF IsNil(existed) THEN TRUE
    ELSE MapGet(existed, path) # Exists(f, path)

\* the mtime comparison without the existence map
MtimeOnly(at, existed, f, path) ==
    Exists(f, path) /\ After(ModTime(f, path), at)

fileChangedSince(at, existed, f, path) ==
    IF IsNil(existed) THEN TRUE
    ELSE LET existedBefore == MapGet(existed, path)
             existsNow == Exists(f, path)
         IN  IF existedBefore # existsNow THEN TRUE
             ELSE IF ~existsNow THEN FALSE
             ELSE After(ModTime(f, path), at)

\* no walk: the skills directory's own mtime is all that is looked at
NoWalk(f, t) == FALSE

skillFilesModifiedSince(f, t) ==
    \E p \in WalkFiles(f) : After(ModTime(f, p), t)

\* a check that finds every cache stale
AlwaysChanged(at, existed, f) == TRUE

sourceFilesChanged(at, existed, f) ==
    IF IsZero(at) THEN TRUE
    ELSE IF \E i \in 1..Len(sourcePaths) :
                fileChangedSince(at, existed, f, sourcePaths[i]) THEN TRUE
    ELSE IF fileChangedSince(at, existed, f, skillsDir) THEN TRUE
    ELSE skillFilesModifiedSince(f, at)

(***************************************************************************)
(* Prompt assembler.                                                       *)
(***************************************************************************)
EmptyPrompt == << >>

\* an identity section that carries the current time
getIdentityWithTime == [kind |-> "identity", body |-> <<<<"Current Time", clock>>>>]

\* getIdentity: fixed text (the workspace path never changes)
getIdentity == [kind |-> "identity", body |-> << >>]

RECURSIVE LoadFrom(_, _, _)
\* the loop of LoadBootstrapFiles from index i on: one section per readable file
LoadFrom(f, names, i) ==
    IF i > Len(names) THEN << >>
    ELSE (IF Readable(f, names[i]) THEN << <<names[i], f[names[i]].c>> >> ELSE << >>)
         \o LoadFrom(f, names, i + 1)

LoadBootstrapFiles(f) == LoadFrom(f, bootstrapFiles, 1)

\* getSkillMetadata of a SKILL.md: the name and description of its frontmatter
SkillMetadata(d, c) ==
    [name |-> d, description |-> c]

\* addSkills(dir, source) without the seen map: os.ReadDir(dir) lists the
\* directory a and os.Stat finds its SKILL.md exactly when that file exists;
\* the skill is taken when its metadata can be read (an unreadable SKILL.md
\* leaves the description empty, which validate rejects)
SkillsIn(f, dir, source) ==
    IF /\ Exists(f, SkillFileIn(dir))
       /\ Readable(f, SkillFileIn(dir))
    THEN LET m == SkillMetadata("a", f[SkillFileIn(dir)].c)
         IN  << <<m.name, m.description, SkillFileIn(dir), source>> >>
    ELSE << >>

\* an enumeration without the seen map
NoSeenMap(skills, found) == found

\* if seen[info.Name] { continue }
Unseen(skills, found) ==
    SelectSeq(found, LAMBDA e : \A i \in 1..Len(skills) : skills[i][1] # e[1])

RECURSIVE AddSkillsFrom(_, _, _)
\* the three addSkills calls from root i on
AddSkillsFrom(f, i, skills) ==
    IF i > Len(SkillRoots) THEN skills
    ELSE AddSkillsFrom(f, i + 1,
             skills \o Unseen(skills, SkillsIn(f, SkillRoots[i], SkillSources[i])))

\* ListSkills: workspace, then global, then builtin skills, one per name
ListSkills(f) == AddSkillsFrom(f, 1, << >>)

BuildSkillsSummary(f) == ListSkills(f)

\* MemoryStore.GetMemoryContext: the long-term memory, "" when there is none
GetMemoryContext(f) ==
    IF Readable(f, MemoryFile) THEN << <<MemoryFile, f[MemoryFile].c>> >> ELSE << >>

BuildSystemPrompt(f) ==
    <<getIdentity>>
    \o (IF LoadBootstrapFiles(f) # << >>
        THEN <<[kind |-> "bootstrap", body |-> LoadBootstrapFiles(f)]>> ELSE << >>)
    \o (IF BuildSkillsSummary(f) # << >>
        THEN <<[kind |-> "skills", body |-> BuildSkillsSummary(f)]>> ELSE << >>)
    \o (IF GetMemoryContext(f) # << >>
        THEN <<[kind |-> "memory", body |-> GetMemoryContext(f)]>> ELSE << >>)

(***************************************************************************)
(* Messages (providers.Message) and the history sanitizer.                 *)
(***************************************************************************)
Msg(role, content, toolCalls, toolCallID) ==
    [Role |-> role, Content |-> content, ToolCalls |-> toolCalls,
     ToolCallID |-> toolCallID, SystemParts |-> << >>]

SysMsg   == Msg("system", "stale", << >>, "")
UserMsg  == Msg("user", "u", << >>, "")
AsstMsg  == Msg("assistant", "a", << >>, "")
AsstA    == Msg("assistant", "", <<"A">>, "")
AsstAB   == Msg("assistant", "", <<"A", "B">>, "")
ToolA    == Msg("tool", "result", << >>, "A")
ToolB    == Msg("tool", "result", << >>, "B")

HistMsgs == {SysMsg, UserMsg, AsstMsg, AsstA, AsstAB, ToolA, ToolB}

SeqsUpTo(S, n) == UNION {[1..k -> S] : k \in 0..n}

\* a backward scan that is content with any assistant message
RECURSIVE NearestIsAssistant(_, _)
NearestIsAssistant(sanitized, i) ==
    IF i < 1 THEN FALSE
    ELSE IF sanitized[i].Role = "tool" THEN NearestIsAssistant(sanitized, i - 1)
    ELSE sanitized[i].Role = "assistant"

\* a scan that looks at the message right before and no further
LastIsToolCallTurn(sanitized, i) ==
    /\ i >= 1
    /\ sanitized[i].Role = "assistant"
    /\ Len(sanitized[i].ToolCalls) > 0

\* the backward scan of the "tool" case: skip tool messages, then look at
\* the nearest other message
RECURSIVE FoundAssistant(_, _)
FoundAssistant(sanitized, i) ==
    IF i < 1 THEN FALSE
    ELSE IF sanitized[i].Role = "tool" THEN FoundAssistant(sanitized, i - 1)
    ELSE sanitized[i].Role = "assistant" /\ Len(sanitized[i].ToolCalls) > 0

\* the loop without its "system" case
KeepsSystem(sanitized, msg) ==
    CASE msg.Role = "tool" ->
            /\ Len(sanitized) # 0
            /\ FoundAssistant(sanitized, Len(sanitized))
      [] msg.Role = "assistant" ->
            IF Len(msg.ToolCalls) > 0
            THEN /\ Len(sanitized) # 0
                 /\ sanitized[Len(sanitized)].Role \in {"user", "tool"}
            ELSE TRUE
      [] OTHER -> TRUE

\* the loop without the test of an assistant turn's predecessor
KeepsToolCallTurns(sanitized, msg) ==
    CASE msg.Role = "system" -> FALSE
      [] msg.Role = "tool" ->
            /\ Len(sanitized) # 0
            /\ FoundAssistant(sanitized, Len(sanitized))
      [] OTHER -> TRUE

\* a loop that wants a plain assistant message to follow something
KeepsFollowingAssistants(sanitized, msg) ==
    CASE msg.Role = "system" -> FALSE
      [] msg.Role = "tool" ->
            /\ Len(sanitized) # 0
            /\ FoundAssistant(sanitized, Len(sanitized))
      [] msg.Role = "assistant" ->
            /\ Len(sanitized) # 0
            /\ Len(msg.ToolCalls) > 0 =>
                   sanitized[Len(sanitized)].Role \in {"user", "tool"}
      [] OTHER -> TRUE

\* one iteration of the loop: TRUE when msg is appended to sanitized
Keeps(sanitized, msg) ==
    CASE msg.Role = "system" -> FALSE
      [] msg.Role = "tool" ->
            /\ Len(sanitized) # 0
            /\ FoundAssistant(sanitized, Len(sanitized))
      [] msg.Role = "assistant" ->
            IF Len(msg.ToolCalls) > 0
            THEN /\ Len(sanitized) # 0
                 /\ sanitized[Len(sanitized)].Role \in {"user", "tool"}
            ELSE TRUE
      [] OTHER -> TRUE

RECURSIVE SanitizeFrom(_, _, _)
SanitizeFrom(history, i, sanitized) ==
    IF i > Len(history) THEN sanitized
    ELSE SanitizeFrom(history, i + 1,
                      IF Keeps(sanitized, history[i])
                      THEN Append(sanitized, history[i]) ELSE sanitized)

\* a sanitizer that judges each message by the input before it, not by
\* what has been kept
SanitizeAgainstInput(history) ==
    LET f[i \in 0..Len(history)] ==
            IF i = 0 THEN << >>
            ELSE IF Keeps(SubSeq(history, 1, i - 1), history[i])
                 THEN Append(f[i - 1], history[i]) ELSE f[i - 1]
    IN  f[Len(history)]

\* a sanitizer that blanks the content of what it keeps
SanitizeAndBlank(history) ==
    LET out == SanitizeFrom(history, 1, << >>)
    IN  [i \in 1..Len(out) |-> [out[i] EXCEPT !.Content = ""]]

sanitizeHistoryForProvider(history) ==
    IF Len(history) = 0 THEN history ELSE SanitizeFrom(history, 1, << >>)

\* AddToolResult: one message of role tool at the end (toolName is not used)
AddToolResult(messages, toolCallID, toolName, result) ==
    Append(messages, Msg("tool", result, << >>, toolCallID))

\* AddAssistantMessage: one message of role assistant at the end; the
\* toolCalls argument is not copied into the message
AddAssistantMessage(messages, content, toolCalls) ==
    Append(messages, Msg("assistant", content, << >>, ""))

(***************************************************************************)
(* Message composer.                                                       *)
(***************************************************************************)
\* a test of the unmodified message in place of the trimmed one
NoTrim(s) == s

\* strings.TrimSpace(s) for the messages of the model
TrimSpace(s) == IF s = " " THEN "" ELSE IF s = " hi " THEN "hi" ELSE s

\* buildDynamicContext: time and runtime, plus the session block when both
\* identifiers are non-empty
buildDynamicContext(now, channel, chatID) ==
    [kind |-> "dynamic",
     body |-> <<<<"Current Time", now>>, <<"Runtime">>>>
              \o (IF channel # "" /\ chatID # ""
                  THEN <<<<"Current Session", channel, chatID>>>> ELSE << >>)]

\* a summary appended without the disclaimer
BareSummary(summary) == [kind |-> "text", body |-> <<summary>>]

SummaryText(summary) == [kind |-> "CONTEXT_SUMMARY", body |-> <<summary>>]

ContentBlock(text, cacheControl) ==
    [Type |-> "text", Text |-> text, CacheControl |-> cacheControl]

\* a flat text that stops after the static prompt
JoinStaticOnly(staticPrompt, rest) == staticPrompt

\* strings.Join(stringParts, "\n\n---\n\n"): the static prompt is itself a
\* join with the same separator, so the flat text is the sequence of all parts
JoinParts(staticPrompt, rest) == staticPrompt \o rest

\* BuildMessages after the static prompt has been obtained
ComposeMessages(staticPrompt, now, a) ==
    LET dynamicCtx == buildDynamicContext(now, a.channel, a.chatID)
        rest == <<dynamicCtx>>
                \o (IF a.summary # "" THEN <<SummaryText(a.summary)>> ELSE << >>)
        contentBlocks ==
            <<ContentBlock(staticPrompt, "ephemeral"), ContentBlock(<<dynamicCtx>>, "")>>
            \o (IF a.summary # ""
                THEN <<ContentBlock(<<SummaryText(a.summary)>>, "")>> ELSE << >>)
        system == [Role |-> "system", Content |-> JoinParts(staticPrompt, rest),
                   ToolCalls |-> << >>, ToolCallID |-> "",
                   SystemParts |-> contentBlocks]
    IN  <<system>>
        \o sanitizeHistoryForProvider(a.history)
        \o (IF TrimSpace(a.currentMessage) # ""
            THEN <<Msg("user", a.currentMessage, << >>, "")>> ELSE << >>)


(***************************************************************************)
(* Initial states.                                                         *)
(***************************************************************************)
NoBaseline == [existed |-> NilMap, maxMtime |-> 0]
NoArgs == [history |-> << >>, summary |-> "", currentMessage |-> "",
           channel |-> "", chatID |-> ""]
NoRet == << >>
\* no prompt recorded (distinct from every prompt, the empty one included)
None == <<[kind |-> "none", body |-> << >>]>>

\* the callers of a behaviour
Callers ==
    IF mode \in {"conc", "race", "atom", "lock", "live"} THEN Procs ELSE {1}

Summaries == {"", "s"}
CurrentMessages == {"", " ", "hi", " hi "}

\* the inputs handed to BuildMessages: every bounded history when the
\* composer is studied, the call of the concurrency test otherwise
BuildMessagesArgs ==
    IF mode = "msg"
    THEN [history : SeqsUpTo(HistMsgs, MaxHist), summary : Summaries,
          currentMessage : CurrentMessages, channel : {"cli"}, chatID : {"", "chat1"}]
    ELSE IF mode = "req"
    THEN [history : {<< >>, <<UserMsg>>}, summary : Summaries \cup {" "},
          currentMessage : {"", "hi"}, channel : {"", "cli"},
          chatID : {"", "chat1"}]
    ELSE [history : {<< >>}, summary : {""},
          currentMessage : {"hi"}, channel : {"cli"}, chatID : {"chat1"}]

\* Initial workspaces: empty; the test workspace holding IDENTITY.md; a
\* workspace with a memory file and one installed skill.
EmptyFs == [p \in Paths |-> Absent]

IdentityFs ==
    [EmptyFs EXCEPT !["skills"] = Dir(1), !["IDENTITY.md"] = File(1, "v1")]

SkillFs ==
    [EmptyFs EXCEPT !["skills"] = Dir(1), !["skills/a"] = Dir(1),
                    !["skills/a/docs"] = Dir(1),
                    !["skills/a/SKILL.md"] = File(1, "v1"),
                    !["skills/a/docs/extra.md"] = File(1, "v1"),
                    !["IDENTITY.md"] = File(1, "v1"),
                    !["memory/MEMORY.md"] = File(2, "v1")]

InitWorkspaces == {EmptyFs, IdentityFs, SkillFs}

NoSeen == [ops |-> 0, prompt |-> EmptyPrompt, at |-> 0, existed |-> NilMap,
           base |-> << >>]
NoWait == [inval |-> FALSE, builds |-> 0]
NoInv == [called |-> FALSE, text |-> EmptyPrompt, ops |-> 0, builtOps |-> 0]

\* the tick of the latest stamp on disk
LatestStamp(f) == SetMax({f[p].mt : p \in Paths} \cup {1})

\* a history variable is kept up to date where the properties stated of the
\* specification read it, and left alone elsewhere
Track(modes, new, old) == IF mode \in modes THEN new ELSE old

\* NewContextBuilder: an empty cache, an unlocked mutex, nobody calling
InitMode(m, workspaces) ==
    /\ mode = m
    /\ fs \in workspaces
    /\ clock = LatestStamp(fs)
    /\ fsOps = 0
    /\ cachedSystemPrompt = EmptyPrompt
    /\ cachedAt = 0
    /\ existedAtCache = NilMap
    /\ systemPromptMutex = [w |-> 0, r |-> {}, pend |-> 0]
    /\ pc = [p \in Procs |-> "idle"]
    /\ op = [p \in Procs |-> "none"]
    /\ args = [p \in Procs |-> NoArgs]
    /\ baseline = [p \in Procs |-> NoBaseline]
    /\ prompt = [p \in Procs |-> EmptyPrompt]
    /\ ret = [p \in Procs |-> NoRet]
    /\ how = [p \in Procs |-> "none"]
    /\ seen = [p \in Procs |-> NoSeen]
    /\ wait = [p \in Procs |-> NoWait]
    /\ built = [fs |-> fs, ops |-> 0, mutated |-> {}, installOps |-> -1,
                text |-> EmptyPrompt,
                rebuilt |-> [text |-> EmptyPrompt, base |-> NoBaseline],
                written |-> EmptyPrompt]
    /\ quiet = [ret |-> None, clean |-> {}]
    /\ inv = [p \in Procs |-> NoInv]

Init == InitMode("conc", InitWorkspaces)
InitSeq == InitMode("seq", {EmptyFs, SkillFs})
InitMsg == InitMode("msg", InitWorkspaces)
InitRace == InitMode("race", {IdentityFs})
InitAtom == InitMode("atom", {IdentityFs})
InitLock == InitMode("lock", {IdentityFs})
InitReq == InitMode("req", InitWorkspaces)
InitLive == InitMode("live", {IdentityFs})
InitSan == InitMode("san", {EmptyFs})
InitAdd == InitMode("add", {EmptyFs})

\* which entries of skills/ exist: every set closed under Parent
SkillTrees ==
    {g \in [Dirs \cup SkillFiles -> BOOLEAN] :
        \A q \in Dirs \cup SkillFiles :
            (g[q] /\ Parent(q) # ".") => g[Parent(q)]}

\* the workspace with the source files in s and the skills entries in g
\* present, stamped 1 but for the entry hot, stamped t; the regular files
\* unreadable when u
TreeOf(s, g, u, hot, t) ==
    [q \in Paths |->
        LET here == IF q \in SourceFiles THEN q \in s
                    ELSE IF q \in OutsidePaths THEN FALSE ELSE g[q]
            mt == IF q = hot THEN t ELSE 1
        IN  IF ~here THEN Absent
            ELSE IF q \in Dirs THEN Dir(mt)
            ELSE File(mt, IF u THEN Unreadable ELSE "v1")]

\* every combination of present and absent watched paths
AbsWorkspaces ==
    {TreeOf(s, g, u, hot, t) :
        s \in SUBSET SourceFiles, g \in SkillTrees, u \in BOOLEAN,
        hot \in Dirs \cup RegularFiles, t \in 1..MaxTime}

InitAbs == InitMode("abs", AbsWorkspaces)

\* what the SKILL.md of a skill may be: missing, valid with one of two
\* descriptions, or without metadata that can be read
SkillStates == {Absent} \cup {File(1, c) : c \in Contents \cup {Unreadable}}

\* every combination of the skill a in the three skills directories
SkillWorkspaces ==
    {[SkillFs EXCEPT ![SkillFileIn(skillsDir)] = w,
                     ![SkillFileIn(globalSkills)] = g,
                     ![SkillFileIn(builtinSkills)] = b] :
        w \in SkillStates, g \in SkillStates, b \in SkillStates}

InitList == InitMode("abs", SkillWorkspaces)

(***************************************************************************)
(* The external actor: the user, an editor, the skills installer.          *)
(***************************************************************************)
\* a directory's mtime moves when an entry is added to or removed from it
TouchParent(f, p, t) ==
    IF Parent(p) = "." THEN f ELSE [f EXCEPT ![Parent(p)].mt = t]

RECURSIVE Under(_, _)
\* q lies beneath directory d
Under(q, d) ==
    IF Parent(q) = "." THEN FALSE
    ELSE IF Parent(q) = d THEN TRUE ELSE Under(Parent(q), d)

Descendants(d) == {q \in Paths : Under(q, d)}

Rebuilding == \E p \in Procs : pc[p] \in {"assemble", "install1", "install2", "install3"}

\* the tree becomes f by an operation on the entries in touched
FsDo(f, touched) ==
    /\ fsOps < MaxFsOps
    /\ f # fs
    /\ fs' = f
    /\ fsOps' = fsOps + 1
    /\ built' = Track({"seq"}, IF Rebuilding
                               THEN [built EXCEPT !.mutated = @ \cup touched]
                               ELSE built, built)
    /\ quiet' = [ret |-> None, clean |-> {}]
    /\ UNCHANGED <<mode, cache, systemPromptMutex, pc, op, args, locals, ret, how,
                   seen, wait, inv>>

\* os.WriteFile(p, c) at tick t: creates or overwrites a regular file
WriteFile(p, t, c) ==
    /\ ParentExists(fs, p)
    /\ FsDo([(IF Exists(fs, p) THEN fs ELSE TouchParent(fs, p, t))
                EXCEPT ![p] = File(t, c)], {p})

\* os.Remove(p) of a regular file
Remove(p, t) ==
    /\ Exists(fs, p)
    /\ FsDo([TouchParent(fs, p, t) EXCEPT ![p] = Absent], {p})

\* os.Mkdir(d)
Mkdir(d, t) ==
    /\ ~Exists(fs, d)
    /\ ParentExists(fs, d)
    /\ FsDo([TouchParent(fs, d, t) EXCEPT ![d] = Dir(t)], {d})

\* os.RemoveAll(d)
RemoveAll(d, t) ==
    /\ Exists(fs, d)
    /\ FsDo([q \in Paths |->
                IF q = d \/ q \in Descendants(d) THEN Absent
                ELSE TouchParent(fs, d, t)[q]],
            {q \in {d} \cup Descendants(d) : Exists(fs, q)})

\* the entries the external actor touches (the files the tests write)
MutableFiles == {"IDENTITY.md", "memory/MEMORY.md"} \cup SkillFiles

\* a mutation stamped with tick t
Mutate(t) ==
    \/ \E p \in MutableFiles, c \in Contents : WriteFile(p, t, c)
    \/ \E p \in MutableFiles : Remove(p, t)
    \/ \E d \in Dirs : Mkdir(d, t)
    \/ \E d \in Dirs : RemoveAll(d, t)

\* a mutation stamped as the actor pleases: in the current tick, later, or
\* earlier (a file copied with its mtime, a clock set back)
EnvAny ==
    /\ fsOps < MaxFsOps
    /\ \E t \in 1..MaxTime : Mutate(t)
    /\ UNCHANGED clock

\* os.Chtimes(p, t, t): any mtime, as the tests and cp -p set it
EnvChtimes ==
    /\ fsOps < MaxFsOps
    /\ \E p \in MutableFiles \cup {skillsDir}, t \in 1..MaxTime :
           /\ Exists(fs, p)
           /\ FsDo([fs EXCEPT ![p].mt = t], {p})
    /\ UNCHANGED clock

\* time passes
Tick ==
    /\ clock < MaxTime
    /\ clock' = clock + 1
    /\ UNCHANGED <<fs, fsOps, mode, cache, systemPromptMutex, pc, op, args, locals,
                   ret, how, ghosts>>

\* a mutation at a fresh tick, later than every mtime stamped before
EnvMono ==
    /\ clock < MaxTime
    /\ clock' = clock + 1
    /\ Mutate(clock + 1)

\* between two calls a tracked source changes at a fresh tick, later than
\* every mtime on disk: a bootstrap file or the memory file is created,
\* edited or deleted, an existing file under skills/ is edited
EnvFresh ==
    /\ \A p \in Procs : pc[p] \in {"idle", "done"}
    /\ clock < MaxTime
    /\ clock' = clock + 1
    /\ \/ \E p \in SourceFiles, c \in Contents : WriteFile(p, clock + 1, c)
       \/ \E p \in SourceFiles : Remove(p, clock + 1)
       \/ \E p \in SkillFiles, c \in Contents :
              Exists(fs, p) /\ WriteFile(p, clock + 1, c)

\* an edit of IDENTITY.md within the current tick
EnvEdit ==
    /\ \E c \in Contents : WriteFile("IDENTITY.md", clock, c)
    /\ UNCHANGED clock

\* the skills installer adds, rewrites or removes the skill a of one of the
\* three directories ListSkills reads, with any mtime
EnvSkills ==
    /\ \E i \in DOMAIN SkillRoots, t \in 1..MaxTime :
           \/ \E c \in Contents : WriteFile(SkillFileIn(SkillRoots[i]), t, c)
           \/ Remove(SkillFileIn(SkillRoots[i]), t)
    /\ UNCHANGED clock

\* an edit of IDENTITY.md at a fresh tick
EnvEditLater ==
    /\ clock < MaxTime
    /\ clock' = clock + 1
    /\ \E c \in Contents : WriteFile("IDENTITY.md", clock + 1, c)

(***************************************************************************)
(* sync.RWMutex                                                            *)
(***************************************************************************)
\* a reader that does not wait for the writer
NoReadLock == TRUE

\* RLock returns once no writer holds the mutex or waits for it inside Lock
CanRLock == systemPromptMutex.w = 0 /\ systemPromptMutex.pend = 0
\* a writer that does not wait for anybody
NoWriteLock == TRUE

\* Lock returns once nobody holds the mutex
CanLock == systemPromptMutex.w = 0 /\ systemPromptMutex.r = {}
RLocked(p) == [systemPromptMutex EXCEPT !.r = @ \cup {p}]
\* an RUnlock that leaves the reader registered
StillRLocked(p) == systemPromptMutex
RUnlocked(p) == [systemPromptMutex EXCEPT !.r = @ \ {p}]
\* a Lock that returns without taking the mutex
NotLocked(p) == systemPromptMutex
Locked(p) == [systemPromptMutex EXCEPT !.w = p, !.pend = 0]
Unlocked == [systemPromptMutex EXCEPT !.w = 0]

\* a step of p inside Lock(): it returns, and p goes on at next, when
\* nobody holds the mutex; finding readers inside, it announces itself, which
\* holds later RLock calls back, and waits for the readers to leave; while
\* another writer holds the mutex or is announced, it waits its turn
LockCall(p, next) ==
    /\ systemPromptMutex.pend \in {0, p}
    /\ IF CanLock
       THEN /\ systemPromptMutex' = Locked(p)
            /\ pc' = [pc EXCEPT ![p] = next]
       ELSE /\ systemPromptMutex.w = 0
            /\ systemPromptMutex.pend = 0
            /\ systemPromptMutex' = [systemPromptMutex EXCEPT !.pend = p]
            /\ UNCHANGED pc

(***************************************************************************)
(* BuildSystemPromptWithCache                                              *)
(***************************************************************************)
sourceFilesChangedLocked == sourceFilesChanged(cachedAt, existedAtCache, fs)

\* the condition of the fast path, under the read lock
FastPathHit == cachedSystemPrompt # EmptyPrompt /\ ~sourceFilesChangedLocked
\* no re-check: whoever gets the write lock rebuilds
NoDoubleCheck == FALSE

\* the same condition again, under the write lock
DoubleCheckHit == cachedSystemPrompt # EmptyPrompt /\ ~sourceFilesChangedLocked

\* the baseline whose fields are assigned to the cache
InstalledBaseline(p) == baseline[p]

\* between the miss of its fast path and its return
Waiting(q) ==
    pc[q] \in {"wlock", "dcheck", "baseline", "assemble",
               "install1", "install2", "install3"}

\* a call begins: remember the cache and the tree's version it starts from
Begin(p, name) ==
    /\ pc[p] = "idle"
    /\ p \in Callers
    /\ op' = [op EXCEPT ![p] = name]
    /\ seen' = Track({"seq"}, [seen EXCEPT ![p] =
                   [ops |-> fsOps, prompt |-> cachedSystemPrompt,
                    at |-> cachedAt, existed |-> existedAtCache,
                    base |-> built.fs]], seen)
    /\ quiet' = IF name = "invalidate" THEN quiet
                ELSE Track({"race"}, [quiet EXCEPT !.clean = @ \cup {p}], quiet)
    /\ inv' = IF name = "getPrompt" THEN inv ELSE [inv EXCEPT ![p] = NoInv]

CallGetPrompt(p) ==
    /\ Begin(p, "getPrompt")
    /\ pc' = [pc EXCEPT ![p] = "rlock"]
    /\ UNCHANGED <<env, mode, cache, systemPromptMutex, args, locals, ret, how,
                   wait, built>>

\* BuildSystemPromptWithCache returns result to its caller: to the user of
\* the ContextBuilder, or to BuildMessages, which goes on
ReturnPrompt(p, result, path) ==
    /\ how' = [how EXCEPT ![p] = path]
    /\ quiet' = IF p \in quiet.clean /\ quiet.ret = None
                THEN [quiet EXCEPT !.ret = result] ELSE quiet
    /\ IF op[p] = "getPrompt"
       THEN /\ pc' = [pc EXCEPT ![p] = "done"]
            /\ ret' = [ret EXCEPT ![p] = result]
            /\ prompt' = [prompt EXCEPT ![p] = EmptyPrompt]
       ELSE /\ pc' = [pc EXCEPT ![p] = "bm_rlock"]
            /\ prompt' = [prompt EXCEPT ![p] = result]
            /\ UNCHANGED ret

\* cb.systemPromptMutex.RLock()
RLock(p) ==
    /\ pc[p] = "rlock"
    /\ CanRLock
    /\ systemPromptMutex' = RLocked(p)
    /\ pc' = [pc EXCEPT ![p] = "fast"]
    /\ UNCHANGED <<env, mode, cache, op, args, locals, ret, how, ghosts>>

\* the test of the fast path; a miss gives the read lock up
FastPath(p) ==
    /\ pc[p] = "fast"
    /\ IF FastPathHit
       THEN /\ pc' = [pc EXCEPT ![p] = "fastret"]
            /\ UNCHANGED <<systemPromptMutex, wait>>
       ELSE /\ pc' = [pc EXCEPT ![p] = "wlock"]
            /\ systemPromptMutex' = RUnlocked(p)
            /\ wait' = [wait EXCEPT ![p] = NoWait]
    /\ UNCHANGED <<env, mode, cache, op, args, locals, ret, how,
                   seen, built, quiet, inv>>

\* result := cb.cachedSystemPrompt; RUnlock; return result
FastReturn(p) ==
    /\ pc[p] = "fastret"
    /\ systemPromptMutex' = RUnlocked(p)
    /\ ReturnPrompt(p, cachedSystemPrompt, "fast")
    /\ UNCHANGED <<env, mode, cache, op, args, baseline, seen, wait, built, inv>>

\* cb.systemPromptMutex.Lock()
Lock(p) ==
    /\ pc[p] = "wlock"
    /\ LockCall(p, "dcheck")
    /\ UNCHANGED <<env, mode, cache, op, args, locals, ret, how, ghosts>>

\* the double-check under the write lock
DoubleCheck(p) ==
    /\ pc[p] = "dcheck"
    /\ IF DoubleCheckHit
       THEN /\ systemPromptMutex' = Unlocked
            /\ ReturnPrompt(p, cachedSystemPrompt, "dcheck")
       ELSE /\ pc' = [pc EXCEPT ![p] = "baseline"]
            /\ UNCHANGED <<systemPromptMutex, prompt, ret, how, quiet>>
    /\ UNCHANGED <<env, mode, cache, op, args, baseline, seen, wait, built, inv>>

\* baseline := cb.buildCacheBaseline()
CaptureBaseline(p) ==
    /\ pc[p] = "baseline"
    /\ baseline' = [baseline EXCEPT ![p] = buildCacheBaseline(fs)]
    /\ pc' = [pc EXCEPT ![p] = "assemble"]
    /\ built' = Track({"seq", "atom"}, [built EXCEPT !.fs = fs, !.ops = fsOps,
                                              !.mutated = {}, !.installOps = -1],
                      built)
    /\ UNCHANGED <<env, mode, cache, systemPromptMutex, op, args, prompt, ret, how,
                   seen, wait, quiet, inv>>

\* prompt := cb.BuildSystemPrompt()
Assemble(p) ==
    /\ pc[p] = "assemble"
    /\ prompt' = [prompt EXCEPT ![p] = BuildSystemPrompt(fs)]
    /\ pc' = [pc EXCEPT ![p] = "install1"]
    /\ wait' = Track({"conc"}, [q \in Procs |->
                  IF Waiting(q)
                  THEN [wait[q] EXCEPT !.builds = IF @ < 2 THEN @ + 1 ELSE @]
                  ELSE wait[q]], wait)
    /\ built' = Track({"atom"}, [built EXCEPT !.rebuilt =
                     [text |-> BuildSystemPrompt(fs), base |-> baseline[p]]], built)
    /\ UNCHANGED <<env, mode, cache, systemPromptMutex, op, args, baseline, ret, how,
                   seen, quiet, inv>>

\* cb.cachedSystemPrompt = prompt
Install1(p) ==
    /\ pc[p] = "install1"
    /\ cachedSystemPrompt' = prompt[p]
    /\ pc' = [pc EXCEPT ![p] = "install2"]
    /\ UNCHANGED <<env, mode, cachedAt, existedAtCache, systemPromptMutex, op, args,
                   locals, ret, how, ghosts>>

\* cb.cachedAt = baseline.maxMtime
Install2(p) ==
    /\ pc[p] = "install2"
    /\ cachedAt' = InstalledBaseline(p).maxMtime
    /\ pc' = [pc EXCEPT ![p] = "install3"]
    /\ UNCHANGED <<env, mode, cachedSystemPrompt, existedAtCache, systemPromptMutex,
                   op, args, locals, ret, how, ghosts>>

\* cb.existedAtCache = baseline.existed, the deferred Unlock and the return
Install3(p) ==
    /\ pc[p] = "install3"
    /\ existedAtCache' = InstalledBaseline(p).existed
    /\ systemPromptMutex' = Unlocked
    /\ baseline' = [baseline EXCEPT ![p] = NoBaseline]
    /\ built' = [built EXCEPT !.installOps = Track({"seq", "atom"}, fsOps, @),
                              !.text = Track({"conc"}, prompt[p], @),
                              !.written = Track({"atom", "lock"}, prompt[p], @)]
    /\ ReturnPrompt(p, prompt[p], "rebuilt")
    /\ UNCHANGED <<env, mode, cachedSystemPrompt, cachedAt, op, args, seen, wait, inv>>

\* the caller has taken the result of its call and is free to call again
Finish(p) ==
    /\ pc[p] = "done"
    /\ pc' = [pc EXCEPT ![p] = "idle"]
    /\ op' = [op EXCEPT ![p] = "none"]
    /\ args' = [args EXCEPT ![p] = NoArgs]
    /\ ret' = [ret EXCEPT ![p] = NoRet]
    /\ how' = [how EXCEPT ![p] = "none"]
    /\ seen' = [seen EXCEPT ![p] = NoSeen]
    /\ wait' = [wait EXCEPT ![p] = NoWait]
    /\ quiet' = [quiet EXCEPT !.clean = @ \ {p}]
    /\ inv' = IF op[p] = "invalidate" THEN inv ELSE [inv EXCEPT ![p] = NoInv]
    /\ UNCHANGED <<env, mode, cache, systemPromptMutex, locals, built>>

PromptStep(p) ==
    \/ CallGetPrompt(p)
    \/ RLock(p)
    \/ FastPath(p)
    \/ FastReturn(p)
    \/ Lock(p)
    \/ DoubleCheck(p)
    \/ CaptureBaseline(p)
    \/ Assemble(p)
    \/ Install1(p)
    \/ Install2(p)
    \/ Install3(p)
    \/ Finish(p)

(***************************************************************************)
(* BuildMessages                                                           *)
(***************************************************************************)
\* staticPrompt := cb.BuildSystemPromptWithCache()
CallBuildMessages(p) ==
    /\ Begin(p, "buildMessages")
    /\ pc' = [pc EXCEPT ![p] = "rlock"]
    /\ \E a \in BuildMessagesArgs : args' = [args EXCEPT ![p] = a]
    /\ UNCHANGED <<env, mode, cache, systemPromptMutex, locals, ret, how, wait, built>>

\* cb.systemPromptMutex.RLock() before reading the cached flag
BMRLock(p) ==
    /\ pc[p] = "bm_rlock"
    /\ CanRLock
    /\ systemPromptMutex' = RLocked(p)
    /\ pc' = [pc EXCEPT ![p] = "bm_read"]
    /\ UNCHANGED <<env, mode, cache, op, args, locals, ret, how, ghosts>>

\* read the flag, RUnlock, sanitize the history, compose, return (the clock
\* stands still between buildDynamicContext and the return wherever
\* BuildMessages is called)
BMCompose(p) ==
    /\ pc[p] = "bm_read"
    /\ systemPromptMutex' = RUnlocked(p)
    /\ ret' = [ret EXCEPT ![p] = ComposeMessages(prompt[p], clock, args[p])]
    /\ prompt' = [prompt EXCEPT ![p] = EmptyPrompt]
    /\ pc' = [pc EXCEPT ![p] = "done"]
    /\ UNCHANGED <<env, mode, cache, op, args, baseline, how, ghosts>>

MessageStep(p) ==
    \/ CallBuildMessages(p)
    \/ BMRLock(p)
    \/ BMCompose(p)

\* BuildMessages reaches history = sanitizeHistoryForProvider(history): the
\* call of the sanitizer on its own, with a history of up to MaxSanHist
\* messages
CallSanitize(p) ==
    /\ Begin(p, "sanitize")
    /\ pc' = [pc EXCEPT ![p] = "sanitize"]
    /\ \E h \in SeqsUpTo(HistMsgs, MaxSanHist) :
           args' = [args EXCEPT ![p] = [NoArgs EXCEPT !.history = h]]
    /\ UNCHANGED <<env, mode, cache, systemPromptMutex, locals, ret, how, wait, built>>

\* the sanitizer runs and returns
SanitizeReturn(p) ==
    /\ pc[p] = "sanitize"
    /\ ret' = [ret EXCEPT ![p] = sanitizeHistoryForProvider(args[p].history)]
    /\ pc' = [pc EXCEPT ![p] = "done"]
    /\ UNCHANGED <<env, mode, cache, systemPromptMutex, op, args, locals, how, ghosts>>

SanitizeStep(p) ==
    \/ CallSanitize(p)
    \/ SanitizeReturn(p)
    \/ Finish(p)

\* the tool calls an assistant turn may be given
ToolCallLists == {<< >>, <<"A">>, <<"A", "B">>}

\* cb.AddAssistantMessage(messages, content, toolCalls) is called
CallAddAssistantMessage(p) ==
    /\ Begin(p, "addAssistantMessage")
    /\ pc' = [pc EXCEPT ![p] = "add"]
    /\ \E m \in SeqsUpTo(HistMsgs, MaxHist), c \in {"", "a"}, tc \in ToolCallLists :
           args' = [args EXCEPT ![p] =
                       [messages |-> m, content |-> c, toolCalls |-> tc]]
    /\ UNCHANGED <<env, mode, cache, systemPromptMutex, locals, ret, how, wait, built>>

\* cb.AddToolResult(messages, toolCallID, toolName, result) is called
CallAddToolResult(p) ==
    /\ Begin(p, "addToolResult")
    /\ pc' = [pc EXCEPT ![p] = "add"]
    /\ \E m \in SeqsUpTo(HistMsgs, MaxHist), id \in {"A", "B"} :
           args' = [args EXCEPT ![p] =
                       [messages |-> m, toolCallID |-> id, toolName |-> "exec",
                        result |-> "result"]]
    /\ UNCHANGED <<env, mode, cache, systemPromptMutex, locals, ret, how, wait, built>>

\* the helper appends and returns the list
AddReturn(p) ==
    /\ pc[p] = "add"
    /\ ret' = [ret EXCEPT ![p] =
                  IF op[p] = "addToolResult"
                  THEN AddToolResult(args[p].messages, args[p].toolCallID,
                                     args[p].toolName, args[p].result)
                  ELSE AddAssistantMessage(args[p].messages, args[p].content,
                                           args[p].toolCalls)]
    /\ pc' = [pc EXCEPT ![p] = "done"]
    /\ UNCHANGED <<env, mode, cache, systemPromptMutex, op, args, locals, how, ghosts>>

AddStep(p) ==
    \/ CallAddAssistantMessage(p)
    \/ CallAddToolResult(p)
    \/ AddReturn(p)
    \/ Finish(p)

(***************************************************************************)
(* InvalidateCache                                                         *)
(***************************************************************************)
CallInvalidate(p) ==
    /\ Begin(p, "invalidate")
    /\ pc' = [pc EXCEPT ![p] = "ilock"]
    /\ UNCHANGED <<env, mode, cache, systemPromptMutex, args, locals, ret, how,
                   wait, built>>

\* cb.systemPromptMutex.Lock()
ILock(p) ==
    /\ pc[p] = "ilock"
    /\ LockCall(p, "iclear1")
    /\ inv' = Track({"seq"}, [inv EXCEPT ![p] =
                  [called |-> TRUE, text |-> cachedSystemPrompt, ops |-> fsOps,
                   builtOps |-> built.ops]], inv)
    /\ UNCHANGED <<env, mode, cache, op, args, locals, ret, how,
                   seen, wait, built, quiet>>

\* an InvalidateCache that leaves the cached text in place
IClear1KeepsText(p) ==
    /\ pc[p] = "iclear1"
    /\ pc' = [pc EXCEPT ![p] = "iclear2"]
    /\ UNCHANGED <<env, mode, cache, systemPromptMutex, op, args,
                   locals, ret, how, ghosts>>

\* cb.cachedSystemPrompt = ""
IClear1(p) ==
    /\ pc[p] = "iclear1"
    /\ cachedSystemPrompt' = EmptyPrompt
    /\ pc' = [pc EXCEPT ![p] = "iclear2"]
    /\ wait' = Track({"conc"}, [q \in Procs |->
                  IF pc[q] = "wlock" THEN [wait[q] EXCEPT !.inval = TRUE] ELSE wait[q]],
                     wait)
    /\ quiet' = [ret |-> None, clean |-> {}]
    /\ UNCHANGED <<env, mode, cachedAt, existedAtCache, systemPromptMutex, op, args,
                   locals, ret, how, seen, built, inv>>

\* an InvalidateCache that forgets the timestamp
IClear2KeepsAt(p) ==
    /\ pc[p] = "iclear2"
    /\ pc' = [pc EXCEPT ![p] = "iclear3"]
    /\ UNCHANGED <<env, mode, cache, systemPromptMutex, op, args,
                   locals, ret, how, ghosts>>

\* cb.cachedAt = time.Time{}
IClear2(p) ==
    /\ pc[p] = "iclear2"
    /\ cachedAt' = 0
    /\ pc' = [pc EXCEPT ![p] = "iclear3"]
    /\ UNCHANGED <<env, mode, cachedSystemPrompt, existedAtCache, systemPromptMutex,
                   op, args, locals, ret, how, ghosts>>

\* cb.existedAtCache = nil and the deferred Unlock
IClear3(p) ==
    /\ pc[p] = "iclear3"
    /\ existedAtCache' = NilMap
    /\ systemPromptMutex' = Unlocked
    /\ pc' = [pc EXCEPT ![p] = "done"]
    /\ built' = [built EXCEPT !.written = Track({"atom", "lock"}, EmptyPrompt, @)]
    /\ UNCHANGED <<env, mode, cachedSystemPrompt, cachedAt, op, args, locals, ret, how,
                   seen, wait, quiet, inv>>

InvalidateStep(p) ==
    \/ CallInvalidate(p)
    \/ ILock(p)
    \/ IClear1(p)
    \/ IClear2(p)
    \/ IClear3(p)

(***************************************************************************)
(* Specifications.                                                         *)
(***************************************************************************)
\* the next statement of caller p, whichever method it is in
Step(p) == PromptStep(p) \/ MessageStep(p) \/ InvalidateStep(p)

Program == \E p \in Procs : Step(p)

Next == Program
\* the calls that read or clear the cache
CacheCalls == \E p \in Procs : PromptStep(p) \/ InvalidateStep(p)
NextSeq == CacheCalls \/ EnvAny \/ EnvChtimes
NextTime == CacheCalls \/ EnvEdit \/ Tick
NextMono == CacheCalls \/ EnvMono
NextRace == (\E p \in Procs : PromptStep(p)) \/ EnvEdit \/ Tick
NextAtom == CacheCalls \/ EnvEditLater
NextLock == Program \/ EnvEdit
NextSan == \E p \in Procs : SanitizeStep(p)
NextAbs == CacheCalls
NextSkills == CacheCalls \/ EnvSkills
NextFresh == CacheCalls \/ EnvFresh
NextAdd == \E p \in Procs : AddStep(p)
NextReq == (\E p \in Procs : PromptStep(p) \/ MessageStep(p)) \/ Tick

\* concurrent callers over a workspace nobody edits
Spec == Init /\ [][Next]_vars
\* one caller, an external actor free to pick mtimes
SpecSeq == InitSeq /\ [][NextSeq]_vars
\* one caller, every mutation at a fresh clock tick
SpecMono == InitSeq /\ [][NextMono]_vars
\* one caller, time passing, IDENTITY.md edited
SpecTime == InitSeq /\ [][NextTime]_vars
\* one caller composing messages from every bounded history
SpecMsg == InitMsg /\ [][Next]_vars
\* concurrent BuildSystemPromptWithCache callers while IDENTITY.md is edited
SpecRace == InitRace /\ [][NextRace]_vars
\* concurrent getPrompt and InvalidateCache callers while IDENTITY.md is
\* rewritten at later ticks
SpecAtom == InitAtom /\ [][NextAtom]_vars
\* concurrent callers of all three operations while IDENTITY.md is rewritten
SpecLock == InitLock /\ [][NextLock]_vars
\* one caller over every combination of present and absent watched paths
SpecAbs == InitAbs /\ [][NextAbs]_vars
\* one caller while skills are installed and removed in the workspace, the
\* global and the builtin skills directories
SpecSkills == InitSeq /\ [][NextSkills]_vars
\* one caller whose requests differ in history, summary, current message,
\* channel, chat id and the time they are made at, over files nobody edits
SpecReq == InitReq /\ [][NextReq]_vars
\* one caller, tracked sources changing between its calls, each change at
\* a fresh tick
SpecFresh == InitSeq /\ [][NextFresh]_vars
\* the two list helpers applied to every bounded list of messages
SpecAdd == InitAdd /\ [][NextAdd]_vars
\* one caller over every combination of the skill a, valid or not, in the
\* three skills directories
SpecList == InitList /\ [][NextAbs]_vars
\* the history sanitizer applied to every bounded history
SpecSan == InitSan /\ [][NextSan]_vars
\* concurrent callers of all three operations under a fair scheduler and a
\* fair mutex: a caller that can take its next statement again and again
\* takes it
SpecLive == InitLive /\ [][Next]_vars /\ \A p \in Procs : SF_vars(Step(p))

(***************************************************************************)
(* Properties.                                                             *)
(***************************************************************************)
\* a completed call of the named operation
Done(p, name) == pc[p] = "done" /\ op[p] = name

SystemCount(msgs) == Cardinality({i \in 1..Len(msgs) : msgs[i].Role = "system"})

\* the value BuildSystemPromptWithCache handed back, while it can still be read
Returned(p) == IF pc[p] = "done" THEN ret[p] ELSE prompt[p]

\* section body holds the entry <<f, c>>: the prompt shows file f with content c
PromptShows(text, f, c) ==
    \E i \in 1..Len(text) :
        \E j \in 1..Len(text[i].body) : text[i].body[j] = <<f, c>>

\* the cache was complete when p's call began and the tree has not moved since
QuietCall(p) ==
    /\ Done(p, "getPrompt")
    /\ seen[p].prompt # EmptyPrompt
    /\ fsOps = seen[p].ops

\* the staleness check on the cache p's call found, against the tree now
StaleFor(p) == sourceFilesChanged(seen[p].at, seen[p].existed, fs)

\* C1: whatever the history (system messages anywhere in it included), the
\* summary and the current message, the list BuildMessages returns holds
\* exactly one message of role system, and it is element 0 of the list.
C1_SingleSystemMessageFirst ==
    \A p \in Procs :
        Done(p, "buildMessages") =>
            /\ Len(ret[p]) >= 1
            /\ ret[p][1].Role = "system"
            /\ SystemCount(ret[p]) = 1

C1_Witness ==
    \E p \in Procs :
        /\ Done(p, "buildMessages")
        /\ Len(args[p].history) = MaxHist
        /\ args[p].history[MaxHist] = SysMsg
        /\ args[p].summary # ""
        /\ TrimSpace(args[p].currentMessage) # ""
        /\ ret[p][Len(ret[p])].Role = "user"

\* C2: a getPrompt call never returns cached text the assembler would no
\* longer produce from the files on disk: a call during which the tree does
\* not move and that answers from the cache returns BuildSystemPrompt of the
\* tree (every mutation here carries a fresh, strictly later mtime).
C2_NeverServesStale ==
    \A p \in Procs :
        (QuietCall(p) /\ how[p] \in {"fast", "dcheck"}) =>
            ret[p] = BuildSystemPrompt(fs)

\* the watched entries: the tracked paths and the regular files under skills/
Watched == TrackedPaths \cup SkillFiles

\* C3: the baseline is captured before the assembly, so when a watched file
\* is edited, created or deleted while BuildSystemPrompt runs inside a
\* rebuild, the staleness check that follows the rebuild returns true.
C3_MutationDuringBuildDetected ==
    (/\ built.installOps = fsOps
     /\ built.mutated \cap Watched # {}
     /\ cachedSystemPrompt # EmptyPrompt
     /\ ~IsZero(cachedAt)
     /\ ~IsNil(existedAtCache))
        => sourceFilesChangedLocked

\* C4: with callers interleaving BuildSystemPromptWithCache, BuildMessages
\* and InvalidateCache in any order, no BuildSystemPromptWithCache call
\* returns the empty string and no BuildMessages call returns a list whose
\* first element is not of role system.
C4_NeverEmptyNeverHeadless ==
    \A p \in Procs :
        /\ (pc[p] = "done" /\ how[p] # "none") => Returned(p) # EmptyPrompt
        /\ pc[p] \in {"bm_rlock", "bm_read"} => Returned(p) # EmptyPrompt
        /\ Done(p, "buildMessages") =>
               Len(ret[p]) >= 1 /\ ret[p][1].Role = "system"

C4_Witness ==
    \E p \in Procs : \E q \in Procs \ {p} :
        /\ Done(p, "buildMessages") /\ how[p] = "fast"
        /\ ret[p][1].Role = "system"
        /\ Done(q, "invalidate")
        /\ cachedSystemPrompt = EmptyPrompt

\* C5: when callers that missed the fast path wait for the write lock and
\* nothing is invalidated meanwhile (no file changes here), BuildSystemPrompt
\* runs exactly once between a caller's miss and its return, and a caller
\* that did not run it returns, after its re-check under the write lock, the
\* text that one rebuild installed.
C5_OneRebuildUnderContention ==
    \A p \in Procs :
        (/\ pc[p] \in {"done", "bm_rlock", "bm_read"}
         /\ how[p] \in {"dcheck", "rebuilt"}
         /\ ~wait[p].inval)
            => /\ wait[p].builds = 1
               /\ (how[p] = "dcheck" /\ op[p] = "getPrompt") => ret[p] = built.text
               /\ (how[p] = "dcheck" /\ pc[p] # "done") => prompt[p] = built.text

C5_Witness ==
    \E p \in Procs : \E q \in Procs \ {p} :
        /\ Done(p, "getPrompt") /\ how[p] = "dcheck" /\ ~wait[p].inval
        /\ Done(q, "getPrompt") /\ how[q] = "rebuilt"
        /\ ret[p] = ret[q]

\* C6: over getPrompt calls between which no file changes (and nothing is
\* invalidated), every call returns the very text the first of them returned.
C6_StableWithoutChange ==
    \A p \in Procs :
        (/\ Done(p, "getPrompt")
         /\ p \in quiet.clean
         /\ quiet.ret # None)
            => ret[p] = quiet.ret

C6_Witness ==
    \E p \in Procs : \E q \in Procs \ {p} :
        /\ Done(p, "getPrompt") /\ p \in quiet.clean /\ how[p] = "fast"
        /\ Done(q, "getPrompt") /\ q \in quiet.clean /\ how[q] = "rebuilt"
        /\ fsOps > 0
        /\ ret[p] = quiet.ret

\* C7: once the cache is built, when the content of a bootstrap file or of
\* memory/MEMORY.md changes and its mtime becomes strictly later than the
\* cached baseline, the staleness check returns true and the next getPrompt
\* call, with no InvalidateCache, rebuilds and returns text that shows the
\* new content and differs from the text cached before.
C7_EditWithLaterMtimeRebuilds ==
    \A p \in Procs :
        \A f \in SourceFiles :
            (/\ QuietCall(p)
             /\ Exists(fs, f)
             /\ After(ModTime(fs, f), seen[p].at)
             /\ \E c \in Contents \ {fs[f].c} : PromptShows(seen[p].prompt, f, c))
                => /\ StaleFor(p)
                   /\ how[p] = "rebuilt"
                   /\ ret[p] = BuildSystemPrompt(fs)
                   /\ PromptShows(ret[p], f, fs[f].c)
                   /\ ret[p] # seen[p].prompt

C7_Witness ==
    \E p \in Procs :
        /\ QuietCall(p)
        /\ how[p] = "rebuilt"
        /\ Exists(fs, MemoryFile)
        /\ After(ModTime(fs, MemoryFile), seen[p].at)
        /\ PromptShows(seen[p].prompt, MemoryFile, "v1")
        /\ PromptShows(ret[p], MemoryFile, "v2")
        /\ \A q \in Paths \ {MemoryFile} : fs[q] = seen[p].base[q]

\* C8: creating a tracked path (a bootstrap file, the memory file or the
\* skills directory) that was absent when the cache was built makes the
\* staleness check return true and the next getPrompt call rebuild, whatever
\* the mtime of the new entry, an mtime not later than the baseline included.
C8_CreationRebuilds ==
    \A p \in Procs :
        \A path \in TrackedPaths :
            (/\ QuietCall(p)
             /\ ~IsNil(seen[p].existed)
             /\ ~MapGet(seen[p].existed, path)
             /\ Exists(fs, path))
                => /\ StaleFor(p)
                   /\ how[p] = "rebuilt"

C8_Witness ==
    \E p \in Procs :
        \E path \in TrackedPaths :
            /\ QuietCall(p)
            /\ how[p] = "rebuilt"
            /\ ~IsNil(seen[p].existed)
            /\ ~MapGet(seen[p].existed, path)
            /\ Exists(fs, path)
            /\ ~After(ModTime(fs, path), seen[p].at)
            /\ \A q \in Watched \ {path} : fs[q] = seen[p].base[q]

\* C9: editing a regular file at any depth beneath skills/ so that its mtime
\* becomes strictly later than the baseline makes the staleness check return
\* true and the next getPrompt call rebuild, also when the mtimes of skills/
\* and of every directory in between stay as they were.
C9_NestedSkillEditRebuilds ==
    \A p \in Procs :
        \A f \in SkillFiles :
            (/\ QuietCall(p)
             /\ Exists(fs, f)
             /\ After(ModTime(fs, f), seen[p].at))
                => /\ StaleFor(p)
                   /\ how[p] = "rebuilt"

C9_Witness ==
    \E p \in Procs :
        /\ QuietCall(p)
        /\ how[p] = "rebuilt"
        /\ Exists(fs, "skills/a/docs/extra.md")
        /\ After(ModTime(fs, "skills/a/docs/extra.md"), seen[p].at)
        /\ \A q \in Paths \ {"skills/a/docs/extra.md"} : fs[q] = seen[p].base[q]
        /\ seen[p].base["skills/a/docs/extra.md"].ex

\* a getPrompt call that follows p's own InvalidateCache of a built cache
AfterInvalidate(p) ==
    /\ Done(p, "getPrompt")
    /\ inv[p].text # EmptyPrompt

\* C10 as stated: InvalidateCache followed by getPrompt, with no file change
\* between the two, returns the text that was cached before the invalidation.
C10_InvalidateRoundTrip ==
    \A p \in Procs :
        (AfterInvalidate(p) /\ fsOps = inv[p].ops) => ret[p] = inv[p].text

\* C10 as amended: InvalidateCache followed by getPrompt returns the text
\* that was cached before the invalidation when no file has changed since
\* the rebuild that produced that text captured its baseline.
C10_InvalidateRoundTripSinceBuild ==
    \A p \in Procs :
        (AfterInvalidate(p) /\ fsOps = inv[p].builtOps) => ret[p] = inv[p].text

C10_Witness ==
    \E p \in Procs :
        /\ AfterInvalidate(p)
        /\ fsOps = inv[p].builtOps
        /\ how[p] = "rebuilt"
        /\ IsZero(seen[p].at) /\ IsNil(seen[p].existed)
        /\ Len(ret[p]) > 1
        /\ ret[p] = inv[p].text

\* C11: InvalidateCache resets the cached text to empty, cachedAt to the
\* zero time and the existence map to nil whatever the cache held, and the
\* getPrompt call that follows it takes the slow path and runs the
\* assembler, also when no source file has changed.
C11_InvalidateResetsAndForcesRebuild ==
    \A p \in Procs :
        /\ Done(p, "invalidate") =>
               /\ cachedSystemPrompt = EmptyPrompt
               /\ IsZero(cachedAt)
               /\ IsNil(existedAtCache)
        /\ (Done(p, "getPrompt") /\ inv[p].called) =>
               /\ seen[p].prompt = EmptyPrompt
               /\ IsZero(seen[p].at)
               /\ IsNil(seen[p].existed)
               /\ how[p] = "rebuilt"

C11_Witness ==
    \E p \in Procs :
        /\ Done(p, "getPrompt")
        /\ inv[p].called
        /\ inv[p].text # EmptyPrompt
        /\ fsOps = inv[p].builtOps
        /\ ~sourceFilesChanged(cachedAt, existedAtCache, fs)
        /\ how[p] = "rebuilt"

\* the three cache fields hold the zero values InvalidateCache assigns
CacheZero ==
    /\ cachedSystemPrompt = EmptyPrompt
    /\ IsZero(cachedAt)
    /\ IsNil(existedAtCache)

\* the three cache fields hold nonzero values
CacheSet ==
    /\ cachedSystemPrompt # EmptyPrompt
    /\ ~IsZero(cachedAt)
    /\ ~IsNil(existedAtCache)

\* C12: whenever no caller holds the write lock the three cache fields are
\* all set or all zero, and when they are set the text and both baseline
\* fields are the ones of the same rebuild, the latest one that ran.
C12_NeverPartiallyUpdated ==
    systemPromptMutex.w = 0 =>
        /\ CacheZero \/ CacheSet
        /\ CacheSet =>
               /\ cachedSystemPrompt = built.rebuilt.text
               /\ cachedAt = built.rebuilt.base.maxMtime
               /\ existedAtCache = built.rebuilt.base.existed

\* a second rebuild, of an edited IDENTITY.md at a later tick, has replaced
\* the first one's text and baseline, with a caller waiting meanwhile
C12_Witness ==
    /\ systemPromptMutex.w = 0
    /\ CacheSet
    /\ fsOps > 0
    /\ cachedAt > 1
    /\ PromptShows(cachedSystemPrompt, "IDENTITY.md", "v2")
    /\ \E p \in Procs : pc[p] = "wlock"

\* the statements that assign a cache field
Writing(p) ==
    pc[p] \in {"install1", "install2", "install3", "iclear1", "iclear2", "iclear3"}

\* the statements that read a cache field under the read lock: the fast-path
\* test with its staleness check, the read of the result, the flag read of
\* BuildMessages
ReadingShared(p) == pc[p] \in {"fast", "fastret", "bm_read"}

\* from the double-check to the last assignment of a rebuild
InRebuild(p) ==
    pc[p] \in {"dcheck", "baseline", "assemble", "install1", "install2", "install3"}

LockDiscipline ==
    /\ \A p \in Procs :
        /\ Writing(p) => systemPromptMutex.w = p
        /\ InRebuild(p) => systemPromptMutex.w = p
        /\ ReadingShared(p) => p \in systemPromptMutex.r
    /\ systemPromptMutex.w # 0 => systemPromptMutex.r = {}
    /\ Cardinality({p \in Procs : InRebuild(p)}) <= 1

\* the fast path hands back the text the latest completed write installed
FastReturnsLastWrite ==
    \A p \in Procs :
        (pc[p] = "fastret" /\ pc'[p] # "fastret") =>
            /\ built.written # EmptyPrompt
            /\ Returned(p)' = built.written

\* C13: every assignment to a cache field happens with the exclusive lock
\* held, every read of one with at least the read lock held, so no reader is
\* inside while a writer is, no two rebuilds overlap, and the text a
\* fast-path reader returns is the text the most recent completed write
\* installed.
C13_LockDiscipline == []LockDiscipline /\ [][FastReturnsLastWrite]_vars

\* a fast-path return of the second installed text while an invalidation
\* waits for the lock
C13_Witness ==
    \E p \in Procs : \E q \in Procs \ {p} :
        /\ Done(p, "getPrompt")
        /\ how[p] = "fast"
        /\ ret[p] = built.written
        /\ PromptShows(ret[p], "IDENTITY.md", "v2")
        /\ pc[q] = "ilock"

\* p is inside a call of RLock or Lock
Requesting(p) == pc[p] \in {"rlock", "bm_rlock", "wlock", "ilock"}

\* p holds the mutex, as a reader or as the writer
Holding(p) == p \in systemPromptMutex.r \/ systemPromptMutex.w = p

NoReentry == \A p \in Procs : Requesting(p) => ~Holding(p)

\* C14: no caller requests the mutex while it holds it, and with concurrent
\* getPrompt, buildMessages and invalidate callers under fair scheduling
\* every call that has begun returns (so nothing deadlocks).
C14_NoReentryEveryCallReturns ==
    /\ []NoReentry
    /\ \A p \in Procs : (pc[p] # "idle") ~> (pc[p] = "done")

\* a writer that found a reader inside has announced itself and waits for
\* the reader to leave
C14_Witness ==
    \E p \in Procs : \E q \in Procs \ {p} :
        /\ pc[p] \in {"wlock", "ilock"}
        /\ systemPromptMutex.pend = p
        /\ pc[q] \in {"fastret", "bm_read"}
        /\ q \in systemPromptMutex.r

\* the current messages that are empty or hold white space only
Blank == {"", " "}

\* C15: the list BuildMessages returns is one system message, then the
\* sanitized history in order, then one user message carrying currentMessage
\* as given if and only if currentMessage is non-empty after trimming white
\* space; so the last element has role user whenever the trimmed message is
\* non-empty, and nothing is appended for an empty or white-space-only one.
C15_ExactComposition ==
    \A p \in Procs :
        Done(p, "buildMessages") =>
            LET kept == sanitizeHistoryForProvider(args[p].history)
                n == Len(kept)
                cm == args[p].currentMessage
            IN  /\ Len(ret[p]) >= n + 1
                /\ ret[p][1].Role = "system"
                /\ SubSeq(ret[p], 2, n + 1) = kept
                /\ IF cm \in Blank
                   THEN Len(ret[p]) = n + 1
                   ELSE /\ Len(ret[p]) = n + 2
                        /\ ret[p][n + 2].Role = "user"
                        /\ ret[p][n + 2].Content = cm
                        /\ ret[p][n + 2].ToolCalls = << >>
                        /\ ret[p][n + 2].ToolCallID = ""

\* a white-space-only current message after a history that ends with an
\* assistant turn and loses one message to the sanitizer
C15_Witness ==
    \E p \in Procs :
        /\ Done(p, "buildMessages")
        /\ args[p].currentMessage = " "
        /\ Len(args[p].history) = MaxHist
        /\ Len(ret[p]) = MaxHist
        /\ ret[p][Len(ret[p])].Role = "assistant"

\* the history handed to the sanitizer and the list it returned
In(p) == args[p].history
Out(p) == ret[p]

\* C16: whatever the history, the sanitizer's output holds no message of
\* role system, wherever system messages stand in the input.
C16_NoSystemInOutput ==
    \A p \in Procs :
        Done(p, "sanitize") =>
            \A i \in 1..Len(Out(p)) : Out(p)[i].Role # "system"

\* system messages first, last and in between, around messages that stay
C16_Witness ==
    \E p \in Procs :
        /\ Done(p, "sanitize")
        /\ Len(In(p)) = MaxSanHist
        /\ In(p)[1].Role = "system"
        /\ In(p)[MaxSanHist].Role = "system"
        /\ \E i \in 2..(MaxSanHist - 1) : In(p)[i].Role = "system"
        /\ Len(Out(p)) = MaxSanHist - 3
        /\ Len(Out(p)) > 0

\* an assistant message that carries tool calls, and one that carries none
ToolCallTurn(m) == m.Role = "assistant" /\ Len(m.ToolCalls) > 0
PlainAssistant(m) == m.Role = "assistant" /\ Len(m.ToolCalls) = 0

\* the positions before i in msgs that hold something else than a tool message
NonToolBefore(msgs, i) == {j \in 1..(i - 1) : msgs[j].Role # "tool"}

\* the tool message at i follows, over tool messages only, an assistant
\* message with tool calls
Anchored(msgs, i) ==
    /\ NonToolBefore(msgs, i) # {}
    /\ ToolCallTurn(msgs[SetMax(NonToolBefore(msgs, i))])

\* C17: every tool message in the sanitizer's output is anchored: the output
\* does not begin with a tool message, and the nearest non-tool message
\* before a tool message is an assistant message carrying tool calls; a tool
\* message directly after a user message or a plain assistant message is
\* dropped (the output then ends with that message).
C17_ToolMessagesAnchored ==
    \A p \in Procs :
        Done(p, "sanitize") =>
            LET h == In(p)
                n == Len(In(p))
                out == Out(p)
            IN  /\ \A i \in 1..Len(out) : out[i].Role = "tool" => Anchored(out, i)
                /\ (/\ n >= 2
                    /\ h[n].Role = "tool"
                    /\ h[n - 1].Role = "user" \/ PlainAssistant(h[n - 1]))
                   => /\ Len(out) >= 1
                      /\ out[Len(out)] = h[n - 1]

\* a tool result stays behind its tool-call turn, and the tool message after
\* the plain assistant reply that follows is dropped
C17_Witness ==
    \E p \in Procs :
        /\ Done(p, "sanitize")
        /\ Len(In(p)) = MaxSanHist
        /\ In(p)[MaxSanHist].Role = "tool"
        /\ PlainAssistant(In(p)[MaxSanHist - 1])
        /\ Len(Out(p)) = MaxSanHist - 1
        /\ \E i \in 1..Len(Out(p)) : Out(p)[i].Role = "tool"

\* C18: every assistant message carrying tool calls in the sanitizer's
\* output is not the first element, and the element right before it has
\* role user or tool; a tool-call turn that opens the history or stands
\* directly after a plain assistant message is dropped.
C18_ToolCallTurnsFollowUserOrTool ==
    \A p \in Procs :
        Done(p, "sanitize") =>
            LET h == In(p)
                n == Len(In(p))
                out == Out(p)
            IN  /\ \A i \in 1..Len(out) :
                       ToolCallTurn(out[i]) =>
                           /\ i > 1
                           /\ out[i - 1].Role \in {"user", "tool"}
                /\ (n = 1 /\ ToolCallTurn(h[1])) => out = << >>
                /\ (n >= 2 /\ ToolCallTurn(h[n]) /\ PlainAssistant(h[n - 1]))
                   => /\ Len(out) >= 1
                      /\ out[Len(out)] = h[n - 1]

\* a tool-call turn stays with its result behind a user message, and the
\* tool-call turn after the plain assistant reply that follows is dropped
C18_Witness ==
    \E p \in Procs :
        /\ Done(p, "sanitize")
        /\ Len(In(p)) = MaxSanHist
        /\ ToolCallTurn(In(p)[MaxSanHist])
        /\ PlainAssistant(In(p)[MaxSanHist - 1])
        /\ Len(Out(p)) = MaxSanHist - 1
        /\ \E i \in 2..(Len(Out(p)) - 1) :
               ToolCallTurn(Out(p)[i]) /\ Out(p)[i + 1].Role = "tool"

\* the tool call c of the turn at i in msgs has its result among the tool
\* messages that follow the turn directly
HasResult(msgs, i, c) ==
    \E j \in (i + 1)..Len(msgs) :
        /\ msgs[j].Role = "tool"
        /\ msgs[j].ToolCallID = c
        /\ \A k \in (i + 1)..j : msgs[k].Role = "tool"

\* C19: the sanitizer's output holds no orphaned tool-call turn: each tool
\* call of an assistant message kept in the output has a tool message of the
\* same tool-call id later in the output, before the next non-tool message.
C19_NoOrphanedToolCallTurn ==
    \A p \in Procs :
        Done(p, "sanitize") =>
            \A i \in 1..Len(Out(p)) :
                ToolCallTurn(Out(p)[i]) =>
                    \A n \in 1..Len(Out(p)[i].ToolCalls) :
                        HasResult(Out(p), i, Out(p)[i].ToolCalls[n])

\* the ids of the tool calls of message m
CallIds(m) == {m.ToolCalls[n] : n \in 1..Len(m.ToolCalls)}

\* the tool-call turn at i is directly followed by one tool message for each
\* of its calls
FollowedByResults(h, i) ==
    LET k == Len(h[i].ToolCalls)
    IN  /\ i + k <= Len(h)
        /\ \A j \in (i + 1)..(i + k) : h[j].Role = "tool"
        /\ {h[j].ToolCallID : j \in (i + 1)..(i + k)} = CallIds(h[i])

\* no system message, and every tool-call turn directly follows a user or
\* tool message and is followed by its tool results
WellFormedTurns(h) ==
    /\ \A i \in 1..Len(h) : h[i].Role # "system"
    /\ \A i \in 1..Len(h) :
           ToolCallTurn(h[i]) =>
               /\ i > 1
               /\ h[i - 1].Role \in {"user", "tool"}
               /\ FollowedByResults(h, i)

\* the tool message at j is one of the results that directly follow a turn
ResultOfTurn(h, j) ==
    \E i \in 1..(j - 1) :
        /\ ToolCallTurn(h[i])
        /\ j <= i + Len(h[i].ToolCalls)
        /\ FollowedByResults(h, i)

\* and every tool message is such a result
WellFormed(h) ==
    /\ WellFormedTurns(h)
    /\ \A j \in 1..Len(h) : h[j].Role = "tool" => ResultOfTurn(h, j)

\* C20 as stated: a history with no system messages in which every assistant
\* tool-call turn directly follows a user or tool message and is followed by
\* its tool results is returned with all messages kept, in order.
C20_IdentityOnWellFormed ==
    \A p \in Procs :
        (Done(p, "sanitize") /\ WellFormedTurns(In(p))) => Out(p) = In(p)

\* C20, amended: such a history in which, moreover, every tool message is one
\* of the results directly following a tool-call turn is returned with all
\* messages kept, in order.
C20_IdentityOnWellFormedRounds ==
    \A p \in Procs :
        (Done(p, "sanitize") /\ WellFormed(In(p))) => Out(p) = In(p)

\* a round of two calls with both results, then an answer, kept whole
C20_Witness ==
    \E p \in Procs :
        /\ Done(p, "sanitize")
        /\ WellFormed(In(p))
        /\ Len(In(p)) = MaxSanHist
        /\ \E i \in 1..Len(In(p)) : Len(In(p)[i].ToolCalls) = 2
        /\ PlainAssistant(In(p)[MaxSanHist])
        /\ Out(p) = In(p)

\* the six paths whose existence the cache records
SixTracked ==
    {"AGENTS.md", "SOUL.md", "USER.md", "IDENTITY.md", "memory/MEMORY.md", "skills"}

\* C21: missing or unreadable watched files and a missing skills directory
\* never stop a call: whatever combination of watched paths is present, the
\* caller's next statement can always be taken (the snapshot, the staleness
\* check and getPrompt run to their end), an absent path is recorded as
\* existed = false, and getPrompt returns a non-empty prompt.
C21_AbsenceIsNotAnError ==
    \A p \in Callers :
        /\ ENABLED (PromptStep(p) \/ InvalidateStep(p))
        /\ pc[p] = "assemble" =>
               \A q \in SixTracked :
                   /\ q \in DOMAIN baseline[p].existed
                   /\ ~Exists(fs, q) => baseline[p].existed[q] = FALSE
        /\ (Done(p, "getPrompt") /\ how[p] = "rebuilt") =>
               \A q \in SixTracked :
                   ~Exists(fs, q) => existedAtCache[q] = FALSE
        /\ Done(p, "getPrompt") => ret[p] # EmptyPrompt

\* a rebuild, then a fast-path return, with no watched path present
C21_Witness ==
    \E p \in Callers :
        /\ Done(p, "getPrompt")
        /\ how[p] = "fast"
        /\ \A q \in SixTracked : ~Exists(fs, q) /\ existedAtCache[q] = FALSE
        /\ ret[p] # EmptyPrompt

\* C22: the baseline is a fixed point of the staleness check: in every
\* file-system state, the empty workspace with its sentinel maxMtime
\* included, the check on a cache whose rebuild has completed returns false
\* as long as nothing on disk has changed since the baseline was captured
\* (nothing changes on disk in this specification).
C22_BaselineIsFixedPoint ==
    (systemPromptMutex.w = 0 /\ cachedSystemPrompt # EmptyPrompt) =>
        ~sourceFilesChangedLocked

\* the empty workspace: the sentinel is installed and the next call returns
\* from the fast path
C22_Witness ==
    \E p \in Callers :
        /\ \A q \in Paths : ~Exists(fs, q)
        /\ cachedAt = SentinelMtime
        /\ Done(p, "getPrompt")
        /\ how[p] = "fast"

\* the regular files at any depth under skills/
UnderSkills == {"skills/a/SKILL.md", "skills/a/docs/extra.md"}

\* the mtimes of the tracked paths and of the files under skills/ that exist
MtimesOnDisk == {fs[q].mt : q \in {r \in SixTracked \cup UnderSkills : fs[r].ex}}

\* C23: buildCacheBaseline returns an existence map with one entry for each
\* of the six tracked paths, equal to whether the path stats now, and a
\* maxMtime that is the greatest mtime among the existing tracked paths and
\* the regular files at any depth under skills/, or the sentinel
\* time.Unix(1,0) when there is none; maxMtime is never the zero time.
C23_BaselineContents ==
    \A p \in Callers :
        pc[p] = "assemble" =>
            /\ DOMAIN baseline[p].existed = SixTracked
            /\ \A q \in SixTracked : baseline[p].existed[q] = fs[q].ex
            /\ IF MtimesOnDisk = {}
               THEN baseline[p].maxMtime = 1
               ELSE /\ baseline[p].maxMtime \in MtimesOnDisk
                    /\ \A m \in MtimesOnDisk : m <= baseline[p].maxMtime
            /\ baseline[p].maxMtime # 0

\* the latest mtime is the one of a file two levels below skills/, with some
\* tracked path missing
C23_Witness ==
    \E p \in Callers :
        /\ pc[p] = "assemble"
        /\ fs["skills/a/docs/extra.md"].ex
        /\ fs["skills/a/docs/extra.md"].mt = MaxTime
        /\ baseline[p].maxMtime = MaxTime
        /\ \E q \in SixTracked : ~baseline[p].existed[q]

\* what the existence map says of tracked path q
ExistedAtBuild(q) == q \in DOMAIN existedAtCache /\ existedAtCache[q]

\* the conditions under which the cache counts as stale
StaleAsStated ==
    \/ cachedAt = 0
    \/ existedAtCache = << >>
    \/ \E q \in SixTracked : ExistedAtBuild(q) # fs[q].ex
    \/ \E q \in SixTracked :
           ExistedAtBuild(q) /\ fs[q].ex /\ fs[q].mt > cachedAt
    \/ \E q \in UnderSkills : fs[q].ex /\ fs[q].mt > cachedAt

\* C24: the staleness check returns true if and only if the baseline time is
\* zero, or the existence map is nil, or some tracked path's existence
\* differs from the recorded one, or some tracked path present then and now
\* has an mtime strictly after the baseline maxMtime, or some regular file
\* under skills/ has one; a path absent then and now and an mtime equal to
\* the baseline maxMtime do not make the cache stale.
C24_StalenessCheckExactly == sourceFilesChangedLocked <=> StaleAsStated

\* the check has let a call return from the fast path with a tracked path
\* missing then and now and a file re-stamped with the baseline maxMtime
C24_Witness ==
    \E p \in Callers :
        /\ Done(p, "getPrompt")
        /\ how[p] = "fast"
        /\ fsOps > 0
        /\ seen[p].ops = fsOps
        /\ \E q \in SixTracked : ~ExistedAtBuild(q) /\ ~fs[q].ex
        /\ \E q \in SixTracked \cup UnderSkills :
               fs[q].ex /\ fs[q].mt = cachedAt

\* C25: deleting a tracked file, or removing the skills directory, that
\* existed when the cache was last built makes the staleness check return
\* true, also when no remaining file has an mtime later than the baseline;
\* the next getPrompt call rebuilds, records the path as absent, and the
\* check is false again afterwards.
C25_DeletionRebuildsOnce ==
    \A p \in Procs :
        \A path \in TrackedPaths :
            (/\ QuietCall(p)
             /\ ~IsNil(seen[p].existed)
             /\ MapGet(seen[p].existed, path)
             /\ ~Exists(fs, path))
                => /\ StaleFor(p)
                   /\ how[p] = "rebuilt"
                   /\ ~IsNil(existedAtCache)
                   /\ ~MapGet(existedAtCache, path)
                   /\ ~sourceFilesChangedLocked

\* the deletion is the only change, and nothing left on disk is later than
\* the baseline the deleted path was recorded in
C25_Witness ==
    \E p \in Procs :
        \E path \in TrackedPaths :
            /\ QuietCall(p)
            /\ how[p] = "rebuilt"
            /\ MapGet(seen[p].existed, path)
            /\ ~Exists(fs, path)
            /\ ~MapGet(existedAtCache, path)
            /\ \A q \in Paths : Exists(fs, q) =>
                   /\ fs[q] = seen[p].base[q]
                   /\ ~After(ModTime(fs, q), seen[p].at)

\* the installed cache is the one built from the tree built.fs, and the tree
\* did not move while it was built
BuiltUndisturbed ==
    /\ CacheSet
    /\ built.installOps >= 0
    /\ built.installOps = built.ops

\* C26: structural changes inside the skills directory are detected: when an
\* entry at any depth beneath skills/ is added or removed after the cache
\* was built (skills/a/SKILL.md deleted, a file with a preserved old mtime
\* added inside skills/a/), the staleness check returns true.
C26_NestedStructuralChangeDetected ==
    (/\ BuiltUndisturbed
     /\ \E q \in Descendants(skillsDir) : built.fs[q].ex # fs[q].ex)
        => sourceFilesChangedLocked

\* C27: every directory skills are enumerated from (workspace, global,
\* builtin) is part of the staleness set: when a skill of any of the three
\* is added, edited or removed after the cache was built, the staleness
\* check returns true.
C27_AllSkillRootsWatched ==
    (/\ BuiltUndisturbed
     /\ \E i \in DOMAIN SkillRoots :
            built.fs[SkillFileIn(SkillRoots[i])] # fs[SkillFileIn(SkillRoots[i])])
        => sourceFilesChangedLocked

\* the installed cache was built from the tree as it is: nothing on disk has
\* changed since its baseline was captured
BuiltAndUnchanged == BuiltUndisturbed /\ built.installOps = fsOps

\* p returns the cached text, from the fast path or from the double-check
ReturnsCached(p) == how[p] = "none" /\ how'[p] \in {"fast", "dcheck"}

\* p is past prompt := cb.BuildSystemPrompt() in its rebuild
Assembled(p) == pc[p] \in {"install1", "install2", "install3"}

\* C28: a getPrompt call that returns from the read-locked fast path or from
\* the double-check under the write lock leaves the cached text, the baseline
\* time and the existence map as they are and has not run the assembler (a
\* call that ran it returns as a rebuild, and the assembler is entered only
\* past a failed double-check); once a build has completed, with no file
\* change and no invalidation since, no call gets past the double-check
\* again, however the callers interleave.
C28_CachedReturnsLeaveCacheAlone ==
    [][\A p \in Procs :
          /\ ReturnsCached(p) =>
                 /\ UNCHANGED cache
                 /\ pc[p] \in {"fastret", "dcheck"}
                 /\ Returned(p)' = cachedSystemPrompt
          /\ (Assembled(p) /\ ~Assembled(p)') => how'[p] = "rebuilt"
          /\ (pc'[p] = "assemble" /\ pc[p] # "assemble") => pc[p] = "baseline"
          /\ (pc'[p] = "baseline" /\ pc[p] # "baseline") =>
                 /\ pc[p] = "dcheck"
                 /\ ~BuiltAndUnchanged]_vars

\* with the tree edited before the last build and unchanged since, one call
\* has returned from the fast path and another from the double-check
C28_Witness ==
    \E p \in Procs : \E q \in Procs \ {p} :
        /\ Done(p, "getPrompt") /\ how[p] = "fast"
        /\ Done(q, "getPrompt") /\ how[q] = "dcheck"
        /\ BuiltAndUnchanged
        /\ fsOps > 0

\* the text holds a "Current Time" entry
HasCurrentTime(text) ==
    \E i \in 1..Len(text) :
        \E j \in 1..Len(text[i].body) : text[i].body[j][1] = "Current Time"

\* C29: the cached static prompt is independent of the per-request inputs:
\* whatever the history, summary, current message, channel, chat id and time
\* of the requests made so far, the three cache fields and the static text
\* (the first structured block, and the value getPrompt returns) are those
\* the files on disk determine, and the static text holds no "Current Time"
\* section.
C29_StaticPromptIgnoresRequests ==
    \A p \in Procs :
        /\ pc[p] = "done" =>
               /\ cachedSystemPrompt = BuildSystemPrompt(fs)
               /\ cachedAt = buildCacheBaseline(fs).maxMtime
               /\ existedAtCache = buildCacheBaseline(fs).existed
               /\ ~HasCurrentTime(cachedSystemPrompt)
        /\ Done(p, "getPrompt") =>
               /\ ret[p] = BuildSystemPrompt(fs)
               /\ ~HasCurrentTime(ret[p])
        /\ Done(p, "buildMessages") =>
               /\ ret[p][1].SystemParts[1].Text = BuildSystemPrompt(fs)
               /\ ~HasCurrentTime(ret[p][1].SystemParts[1].Text)
               /\ HasCurrentTime(ret[p][1].SystemParts[2].Text)

\* a request with a summary, a session and a history, made at a later time
\* than the one that built the cache, answered from the cache
C29_Witness ==
    \E p \in Procs :
        /\ Done(p, "buildMessages")
        /\ how[p] = "fast"
        /\ args[p].summary # ""
        /\ args[p].channel # "" /\ args[p].chatID # ""
        /\ args[p].history # << >>
        /\ clock > LatestStamp(fs)
        /\ ret[p][1].SystemParts[2].Text[1].body[1] = <<"Current Time", clock>>

RECURSIVE JoinTexts(_, _)
\* the texts of the blocks from index i on, joined with the separator
JoinTexts(blocks, i) ==
    IF i > Len(blocks) THEN << >>
    ELSE blocks[i].Text \o JoinTexts(blocks, i + 1)

\* C30: in the system message BuildMessages produces, the flat Content is
\* the texts of the SystemParts blocks joined in order with the fixed
\* separator; there are exactly two blocks (static, dynamic) when summary
\* is empty and exactly three (static, dynamic, summary) otherwise; the
\* first block's text is the value getPrompt returned to the call, and it
\* is the only block that carries the cacheability hint.
C30_ContentMatchesBlocks ==
    [][\A p \in Procs :
          (pc[p] = "bm_read" /\ pc'[p] = "done") =>
              LET system == ret'[p][1]
                  blocks == system.SystemParts
                  a == args[p]
              IN  /\ system.Content = JoinTexts(blocks, 1)
                  /\ Len(blocks) = IF a.summary = "" THEN 2 ELSE 3
                  /\ blocks[1].Text = prompt[p]
                  /\ blocks[2].Text =
                         <<buildDynamicContext(clock, a.channel, a.chatID)>>
                  /\ a.summary # "" =>
                         blocks[3].Text = <<SummaryText(a.summary)>>
                  /\ blocks[1].CacheControl = "ephemeral"
                  /\ \A i \in 2..Len(blocks) : blocks[i].CacheControl = ""
                  /\ \A i \in 1..Len(blocks) : blocks[i].Type = "text"]_vars

\* a system message of three blocks over a static prompt of several
\* sections, and one of two blocks
C30_Witness ==
    \E p \in Procs :
        /\ Done(p, "buildMessages")
        /\ args[p].summary # ""
        /\ Len(ret[p][1].SystemParts) = 3
        /\ Len(ret[p][1].SystemParts[1].Text) >= 3
        /\ Len(ret[p][1].Content) = Len(ret[p][1].SystemParts[1].Text) + 2
        /\ ret[p][1].SystemParts[1].Text = cachedSystemPrompt

\* the positions of the CONTEXT_SUMMARY blocks in a text
SummaryMarks(text) == {i \in 1..Len(text) : text[i].kind = "CONTEXT_SUMMARY"}

\* C31: the system message holds the CONTEXT_SUMMARY disclaimer block,
\* followed by the summary text, if and only if the supplied summary is not
\* the empty string; with an empty summary the marker appears nowhere in
\* the system message.
C31_SummaryBlockIffSummary ==
    \A p \in Procs :
        Done(p, "buildMessages") =>
            LET system == ret[p][1]
                n == Len(system.Content)
                blocks == system.SystemParts
                summary == args[p].summary
            IN  IF summary = ""
                THEN /\ SummaryMarks(system.Content) = {}
                     /\ \A i \in 1..Len(blocks) : SummaryMarks(blocks[i].Text) = {}
                ELSE /\ SummaryMarks(system.Content) = {n}
                     /\ system.Content[n].body = <<summary>>
                     /\ SummaryMarks(blocks[Len(blocks)].Text) = {1}
                     /\ blocks[Len(blocks)].Text[1].body = <<summary>>
                     /\ \A i \in 1..(Len(blocks) - 1) :
                            SummaryMarks(blocks[i].Text) = {}

\* a summary of white space only is still a summary: the block is there
C31_Witness ==
    \E p \in Procs :
        /\ Done(p, "buildMessages")
        /\ args[p].summary = " "
        /\ ret[p][1].Content[Len(ret[p][1].Content)] = SummaryText(" ")
        /\ Len(ret[p][1].SystemParts) = 3

\* C32: every tool-result message the sanitizer keeps has a matching call:
\* its tool-call id is the id of one of the tool calls of the assistant
\* message that anchors it (the nearest non-tool message before it in the
\* output); a tool result whose id matches none of them is dropped.
C32_KeptResultsMatchACall ==
    \A p \in Procs :
        Done(p, "sanitize") =>
            \A i \in 1..Len(Out(p)) :
                (Out(p)[i].Role = "tool" /\ Anchored(Out(p), i)) =>
                    Out(p)[i].ToolCallID \in
                        CallIds(Out(p)[SetMax(NonToolBefore(Out(p), i))])

\* the message at i of history h is appended by the sanitizer: the result
\* for the first i messages is longer than the result for the first i - 1
KeptAt(h, i) ==
    Len(sanitizeHistoryForProvider(SubSeq(h, 1, i)))
        > Len(sanitizeHistoryForProvider(SubSeq(h, 1, i - 1)))

\* the messages from i + 1 to j of h are tool messages
ToolRun(h, i, j) == \A k \in (i + 1)..j : h[k].Role = "tool"

\* C33: whenever the sanitizer drops an assistant tool-call turn, the tool
\* messages that directly follow the turn in the input are dropped as well,
\* whatever has been accumulated before the turn (a last kept message that
\* is itself an assistant tool-call turn, or a tool result, included).
C33_ResultsOfDroppedTurnDropped ==
    \A p \in Procs :
        Done(p, "sanitize") =>
            \A i \in 1..Len(In(p)) :
                (ToolCallTurn(In(p)[i]) /\ ~KeptAt(In(p), i)) =>
                    \A j \in (i + 1)..Len(In(p)) :
                        ToolRun(In(p), i, j) => ~KeptAt(In(p), j)

\* a user message or an assistant message without tool calls
Plain(m) == m.Role = "user" \/ PlainAssistant(m)
PlainCount(msgs) == Cardinality({i \in 1..Len(msgs) : Plain(msgs[i])})

\* C34: every plain user message and every plain assistant message (no tool
\* calls) of the input history is in the sanitizer's output, whatever
\* precedes it, and the output holds as many such messages as the input.
C34_PlainMessagesKept ==
    \A p \in Procs :
        Done(p, "sanitize") =>
            /\ \A i \in 1..Len(In(p)) : Plain(In(p)[i]) => KeptAt(In(p), i)
            /\ PlainCount(Out(p)) = PlainCount(In(p))

\* plain messages at the start of the history, after a dropped tool message
\* and after a dropped tool-call turn, all kept
C34_Witness ==
    \E p \in Procs :
        /\ Done(p, "sanitize")
        /\ In(p) = <<AsstMsg, ToolA, UserMsg, AsstMsg, AsstA>>
        /\ Out(p) = <<AsstMsg, UserMsg, AsstMsg>>

RECURSIVE IsSubsequence(_, _)
\* a is b with some elements left out: same elements, same order
IsSubsequence(a, b) ==
    IF a = << >> THEN TRUE
    ELSE IF b = << >> THEN FALSE
    ELSE IF Head(a) = Head(b) THEN IsSubsequence(Tail(a), Tail(b))
    ELSE IsSubsequence(a, Tail(b))

\* C35: the sanitizer is a pure filter: what it returns is the input with
\* some messages left out, the others unmodified and in their order; the
\* caller's history is left as it was; an empty (or nil) history gives an
\* empty result.
C35_PureFilter ==
    [][\A p \in Procs :
          (pc[p] = "sanitize" /\ pc'[p] = "done") =>
              /\ IsSubsequence(ret'[p], args[p].history)
              /\ args'[p] = args[p]
              /\ args[p].history = << >> => ret'[p] = << >>]_vars

\* messages kept on both sides of a dropped one
C35_Witness ==
    \E p \in Procs :
        /\ Done(p, "sanitize")
        /\ Len(In(p)) = MaxSanHist
        /\ \E i \in 1..MaxSanHist : \E j \in (i + 1)..MaxSanHist :
               \E k \in (j + 1)..MaxSanHist :
                   /\ KeptAt(In(p), i) /\ ~KeptAt(In(p), j) /\ KeptAt(In(p), k)
                   /\ In(p)[i] # In(p)[k]
        /\ IsSubsequence(Out(p), In(p))
        /\ Len(Out(p)) < MaxSanHist

\* C36: the sanitizer is idempotent: sanitizing what it returned for a
\* history over the roles system, user, assistant (with or without tool
\* calls) and tool changes nothing.
C36_Idempotent ==
    \A p \in Procs :
        Done(p, "sanitize") => sanitizeHistoryForProvider(Out(p)) = Out(p)

\* a result that lost a tool-call turn and its result and kept another round
C36_Witness ==
    \E p \in Procs :
        /\ Done(p, "sanitize")
        /\ Len(In(p)) = MaxSanHist
        /\ Len(Out(p)) = MaxSanHist - 2
        /\ ToolCallTurn(In(p)[1]) /\ In(p)[2].Role = "tool"
        /\ \E i \in 1..Len(Out(p)) : ToolCallTurn(Out(p)[i])
        /\ Out(p)[Len(Out(p))].Role = "tool"
        /\ sanitizeHistoryForProvider(Out(p)) = Out(p)

C38_HelpersAppendAndCarryToolCalls ==
    \A p \in Procs :
        /\ Done(p, "addToolResult") =>
               LET m == args[p].messages
               IN  /\ Len(ret[p]) = Len(m) + 1
                   /\ SubSeq(ret[p], 1, Len(m)) = m
                   /\ ret[p][Len(m) + 1].Role = "tool"
                   /\ ret[p][Len(m) + 1].ToolCallID = args[p].toolCallID
        /\ Done(p, "addAssistantMessage") =>
               LET m == args[p].messages
                   tc == args[p].toolCalls
                   next == AddToolResult(ret[p], tc[1], "exec", "result")
               IN  /\ Len(ret[p]) = Len(m) + 1
                   /\ SubSeq(ret[p], 1, Len(m)) = m
                   /\ ret[p][Len(m) + 1].Role = "assistant"
                   /\ tc # << >> =>
                          /\ ret[p][Len(m) + 1].ToolCalls = tc
                          /\ (/\ m # << >>
                              /\ m[Len(m)].Role = "user"
                              /\ sanitizeHistoryForProvider(m) = m)
                             => sanitizeHistoryForProvider(next) = next

\* the skills a prompt lists
SkillsOf(text) ==
    LET at == {i \in 1..Len(text) : text[i].kind = "skills"}
    IN  IF at = {} THEN << >> ELSE text[CHOOSE i \in at : TRUE].body

\* the roots, by their priority, whose skill a passes validation
ValidRoots == {i \in DOMAIN SkillRoots : Readable(fs, SkillFileIn(SkillRoots[i]))}

\* C39: ListSkills returns at most one skill per name; when the same valid
\* skill name is present in several of the three directories, the entry
\* returned is that of the highest-priority source (workspace, then global,
\* then builtin); a skill whose metadata fails validation is left out,
\* neither stopping the enumeration nor shadowing a valid skill of the same
\* name in a directory of lower priority.
C39_OneSkillPerNameByPriority ==
    \A p \in Procs :
        Done(p, "getPrompt") =>
            LET listed == SkillsOf(ret[p])
            IN  /\ \A i \in 1..Len(listed) : \A j \in 1..Len(listed) :
                       listed[i][1] = listed[j][1] => i = j
                /\ IF ValidRoots = {} THEN listed = << >>
                   ELSE LET first == CHOOSE i \in ValidRoots :
                                         \A j \in ValidRoots : i <= j
                            file == SkillFileIn(SkillRoots[first])
                        IN  listed = << <<"a", fs[file].c, file,
                                          SkillSources[first]>> >>

\* the workspace skill fails validation, the global and the builtin one are
\* valid and differ: the global one is listed
C39_Witness ==
    \E p \in Procs :
        /\ Done(p, "getPrompt")
        /\ Exists(fs, SkillFileIn(skillsDir))
        /\ ~Readable(fs, SkillFileIn(skillsDir))
        /\ Readable(fs, SkillFileIn(globalSkills))
        /\ Readable(fs, SkillFileIn(builtinSkills))
        /\ fs[SkillFileIn(globalSkills)].c # fs[SkillFileIn(builtinSkills)].c
        /\ Len(SkillsOf(ret[p])) = 1
        /\ SkillsOf(ret[p])[1][4] = "global"

\* the two places of getPrompt where the staleness check can be evaluated:
\* the fast path under the read lock, the double-check under the write lock
AtStalenessCheck(p) == op[p] = "getPrompt" /\ pc[p] \in {"fast", "dcheck"}

\* C40: with a non-zero baseline time and a nil existence map the staleness
\* check answers true whatever the file system holds; and no caller of
\* getPrompt is ever about to evaluate the check on a cache whose baseline
\* time is non-zero while its existence map is nil.
C40_NilMapAlwaysStaleAndUnreachable ==
    /\ \A t \in 1..MaxTime : sourceFilesChanged(t, NilMap, fs)
    /\ \A p \in Procs :
           AtStalenessCheck(p) =>
               ~(~IsZero(cachedAt) /\ IsNil(existedAtCache))

\* a caller is about to evaluate the check on a cache that is current while
\* an InvalidateCache waits for the write lock: with the installed map the answer is
\* "unchanged", with a nil map in its place it would have been "changed"
C40_Witness ==
    \E p \in Procs :
        /\ AtStalenessCheck(p)
        /\ \E q \in Procs \ {p} : op[q] = "invalidate" /\ pc[q] = "ilock"
        /\ cachedSystemPrompt # EmptyPrompt
        /\ ~IsZero(cachedAt)
        /\ ~IsNil(existedAtCache)
        /\ ~sourceFilesChangedLocked
        /\ sourceFilesChanged(cachedAt, NilMap, fs)

=============================================================================
